---- MODULE Spec2Model ----
(***************************************************************************)
(* A model of the wide-fsm runtime (src/src/index.ts): the Fsm class, its  *)
(* dispatch algorithm and its two listener registries.                     *)
(*                                                                         *)
(* State objects live in a heap and are named by references, so that "the  *)
(* same reference" and "an equal value" are different statements.  A state *)
(* object has a tag and may have a payload, which is an object of its own. *)
(* The two                                                                 *)
(* listener registries are JavaScript Sets: insertion-ordered, without     *)
(* duplicates, and iterated by a live cursor, so that an entry deleted     *)
(* before its turn is skipped and an entry added during the iteration is   *)
(* visited.  Listener bodies are arbitrary caller code: while a listener   *)
(* runs it may call any operation of the Fsm, dispatch included.           *)
(***************************************************************************)
EXTENDS Integers, Sequences, FiniteSets, TLC

VARIABLES
    heap,                   \* reference -> state object (a record with a tag)
    transitions,            \* the transition table handed to the constructor
    state,                  \* Fsm.state, per instance: a reference
    onStateChangeListeners, \* per instance: the Set, in insertion order
    onTransitionLookup,     \* per instance: stateKey -> eventKey -> Set
    stack,                  \* the active dispatch calls, outermost first
    unsub,                  \* the unsubscribe closure the caller holds
    held,                   \* the object the caller got from getState() /
                            \* getInternalState() and holds (0: none)
    log,                    \* what happened since the outermost dispatch began
    step                    \* the operation the last step performed

vars == << heap, transitions, state, onStateChangeListeners,
           onTransitionLookup, stack, unsub, held, log, step >>

-----------------------------------------------------------------------------
(* Bounds and input sets *)

\* API calls that listener bodies may make within one outermost dispatch.
MaxNestedOps == 1

None == "-"
Undefined == "undefined"

FsmIds == {"fsm"}
Callbacks == {"L1", "L2"}

\* The (stateKey, eventKey) pairs onTransition / offTransition are called with.
ListenKeys == { <<"on", "toggle">> }
NoKey == << None, None >>

NoEvent == [tag |-> None]

-----------------------------------------------------------------------------
(* Transition tables.  A table maps some state tags to a map from some     *)
(* event tags to a handler.                                                *)

\* part_000 / toggle.example.test.ts: the two-state toggle.
\* A variant of the toggle table whose "on" entry lacks the toggle handler.
ToggleTableOneWay ==
    [s \in {"on", "off"} |->
        IF s = "on"
        THEN [e \in {"switch_off"} |-> "toOff"]
        ELSE [e \in {"switch_on", "toggle"} |-> "toOn"]]

ToggleTable ==
    [s \in {"on", "off"} |->
        IF s = "on"
        THEN [e \in {"switch_off", "toggle"} |-> "toOff"]
        ELSE [e \in {"switch_on", "toggle"} |-> "toOn"]]

\* A partial table (TransitionLookup is a Partial<>): no entry for "on".
PartialTable ==
    [s \in {"off"} |-> [e \in {"switch_on"} |-> "toOn"]]

Tables == { ToggleTable, PartialTable }

\* The events and state values a caller of these tables passes in.
Events == { [tag |-> "switch_on"], [tag |-> "switch_off"], [tag |-> "toggle"] }
StateValues == { [tag |-> "on"], [tag |-> "off"] }

\* No validation of the table at construction: the empty table, and a table
\* whose "off" entry has no event keys and whose "on" entry has a key
\* without a handler (both are Partial<>).
EmptyTable == [s \in {} |-> [e \in {} |-> Undefined]]

DeadEndTable ==
    [s \in {"on", "off"} |->
        IF s = "on"
        THEN [e \in {"toggle", "switch_off"} |->
                IF e = "toggle" THEN "toOff" ELSE Undefined]
        ELSE [e \in {} |-> Undefined]]

\* A table whose "on" entry has one event key, and no handler under it.
HandlerlessTable ==
    [s \in {"on", "off"} |->
        IF s = "on"
        THEN [e \in {"switch_off"} |-> Undefined]
        ELSE [e \in {"toggle"} |-> "toOn"]]

\* A table with a transition function that throws: "on" + switch_off.
ThrowingTable ==
    [s \in {"on", "off"} |->
        IF s = "on"
        THEN [e \in {"toggle", "switch_off"} |->
                IF e = "switch_off" THEN "throws" ELSE "toOff"]
        ELSE [e \in {"switch_on", "toggle"} |-> "toOn"]]

\* The call transition(prevState, event) of line 245 throws.
HandlerThrows(handler, prev, event) == handler = "throws"

\* A state with a payload object (FsmState is { tag } plus any other fields).
PayloadValue == [n |-> 0]

\* The turnstile example of the package documentation (lines 36-48).
TurnstileTable ==
    [s \in {"locked", "unlocked"} |->
        IF s = "locked"
        THEN [e \in {"insert_coins"} |-> "unlock"]
        ELSE [e \in {"insert_coins", "walk_through"} |->
                IF e = "insert_coins" THEN "addCoins" ELSE "walkThrough"]]

\* The coins one insert_coins event carries, and how far from 0 the balance
\* is followed.
MaxCoins == 2
MaxBalance == 3

TurnstileEvents ==
    { [tag |-> "insert_coins", numberOfCoinsInserted |-> n] : n \in 0..MaxCoins }
    \cup { [tag |-> "walk_through"] }

\* A variant of walk_through that locks when the balance it finds is 0.
WalkThroughLockingLate(prev, event) ==
    IF prev.balance = 0 THEN [tag |-> "locked"]
    ELSE [tag |-> "unlocked", balance |-> prev.balance - 1]

\* unlocked.walk_through (lines 42-46)
WalkThrough(prev, event) ==
    LET nextBalance == prev.balance - 1
    IN  IF nextBalance = 0 THEN [tag |-> "locked"]
        ELSE [tag |-> "unlocked", balance |-> nextBalance]

\* A transition function applied to (prev, event): the object it returns.
ApplyTransition(handler, prev, event) ==
    CASE handler = "toOn"  -> [tag |-> "on"]
      [] handler = "toOff" -> [tag |-> "off"]
      [] handler = "unlock" ->
            [tag |-> "unlocked", balance |-> event.numberOfCoinsInserted]
      [] handler = "addCoins" ->
            [tag |-> "unlocked",
             balance |-> prev.balance + event.numberOfCoinsInserted]
      [] handler = "walkThrough" -> WalkThrough(prev, event)

-----------------------------------------------------------------------------
(* The heap *)

\* A fresh object gets a reference no live object has.
NewRef(h) == CHOOSE r \in 1..(Cardinality(DOMAIN h) + 1) : r \notin DOMAIN h

Alloc(h, r, value) ==
    [x \in DOMAIN h \cup {r} |-> IF x = r THEN value ELSE h[x]]

\* A state object may carry a payload: a reference to an object of its own.
HasPayload(obj) == "payload" \in DOMAIN obj

\* Objects nothing refers to any more are dropped.
Collect(h, roots) ==
    LET payloads == { h[x].payload : x \in { y \in DOMAIN h \cap roots :
                                                HasPayload(h[y]) } }
    IN  [x \in DOMAIN h \cap (roots \cup payloads) |-> h[x]]

\* References are compared for identity only.  When no dispatch runs, the
\* live objects are renumbered 1, 2, ... in the order of their references,
\* so that states that differ only in the names of the references coincide.
Rank(h, r) == Cardinality({x \in DOMAIN h : x <= r})

Compact(h) ==
    [n \in 1..Cardinality(DOMAIN h) |->
        LET obj == h[CHOOSE x \in DOMAIN h : Rank(h, x) = n]
        IN  IF HasPayload(obj) THEN [obj EXCEPT !.payload = Rank(h, @)]
            ELSE obj]

Renamed(h, st) == [i \in DOMAIN st |-> Rank(h, st[i])]

\* The new name of the object the caller holds, if it holds one.
RenamedRef(h, r) == IF r = 0 THEN 0 ELSE Rank(h, r)

-----------------------------------------------------------------------------
(* JavaScript Set, as a sequence without duplicates *)

Range(seq) == { seq[k] : k \in 1..Len(seq) }

IndexOf(seq, x) == CHOOSE k \in 1..Len(seq) : seq[k] = x

\* A variant of Set.add that puts the new entry first.
SetAddFirst(seq, x) == IF x \in Range(seq) THEN seq ELSE << x >> \o seq

\* A variant of Set.add that behaves as Array.push: no identity check.
SetAddAgain(seq, x) == Append(seq, x)

\* A variant of Set.add that puts x last even when it is already present,
\* as delete followed by add would.
SetAddMovingLast(seq, x) == Append(SelectSeq(seq, LAMBDA y : y # x), x)

SetAdd(seq, x) == IF x \in Range(seq) THEN seq ELSE Append(seq, x)

\* A variant of Set.delete that behaves as splice(indexOf(x), 1) on an array:
\* for an x that is absent indexOf is -1 and the last element is removed.
SetDeleteSplice(seq, x) ==
    IF x \in Range(seq)
    THEN [k \in 1..(Len(seq) - 1) |->
            IF k < IndexOf(seq, x) THEN seq[k] ELSE seq[k + 1]]
    ELSE SubSeq(seq, 1, Len(seq) - 1)

SetDelete(seq, x) ==
    IF x \in Range(seq)
    THEN [k \in 1..(Len(seq) - 1) |->
            IF k < IndexOf(seq, x) THEN seq[k] ELSE seq[k + 1]]
    ELSE seq

\* What Set.add / Set.delete do to the Set (the code drops delete's result).
AddResult(seq, x) == IF x \in Range(seq) THEN "present" ELSE "added"
DeleteResult(seq, x) == IF x \in Range(seq) THEN "removed" ELSE "absent"

\* The cursor of a running iteration after x is deleted: an entry deleted
\* at or before the cursor no longer counts as visited.
CursorAfterDelete(seq, idx, x) ==
    IF x \in Range(seq) /\ IndexOf(seq, x) <= idx THEN idx - 1 ELSE idx

-----------------------------------------------------------------------------
(* Fsm: queries *)

\* A variant of getTransitionHandler that looks the event up under every
\* state's entry instead of the given state's.
GetTransitionHandlerAnyState(table, stateTag, eventTag) ==
    IF \E s \in DOMAIN table : eventTag \in DOMAIN table[s]
    THEN LET s == CHOOSE x \in DOMAIN table : eventTag \in DOMAIN table[x]
         IN  table[s][eventTag]
    ELSE Undefined

\* Fsm.getTransitionHandler: the handler for (stateTag, eventTag), or undefined.
GetTransitionHandler(table, stateTag, eventTag) ==
    IF stateTag \notin DOMAIN table THEN Undefined
    ELSE IF eventTag \notin DOMAIN table[stateTag] THEN Undefined
    ELSE table[stateTag][eventTag]

\* JavaScript truthiness of a table entry: a function is truthy, undefined is not.
Truthy(transition) == transition # Undefined

\* Object.keys(events) of line 206 / 231.
ObjectKeys(events) == DOMAIN events

\* A variant of canDispatch that only looks for the state's entry.
CanDispatchAnyEntry(i, eventTag) ==
    heap[state[i]].tag \in DOMAIN transitions

\* Fsm.canDispatch
CanDispatch(i, eventTag) ==
    Truthy(GetTransitionHandler(transitions, heap[state[i]].tag, eventTag))

\* A variant of isFinalState that only looks for the state's entry
\* (return !events).
IsFinalStateAbsentOnly(i) ==
    heap[state[i]].tag \notin DOMAIN transitions

\* Fsm.isFinalState
IsFinalState(i) ==
    \/ heap[state[i]].tag \notin DOMAIN transitions
    \/ Cardinality(ObjectKeys(transitions[heap[state[i]].tag])) = 0

\* Fsm.getInternalState
GetInternalState(i) == state[i]

\* Line 252: this.onTransitionLookup[prev.tag]?.[event.tag] is a Set.
HasListeners(lookup, stateKey, eventKey) ==
    /\ stateKey \in DOMAIN lookup
    /\ eventKey \in DOMAIN lookup[stateKey]

ListenersOf(lookup, key) ==
    IF HasListeners(lookup, key[1], key[2]) THEN lookup[key[1]][key[2]] ELSE <<>>

\* Fsm.getOnTransitionListeners: creates the two levels of the lookup on demand.
GetOnTransitionListeners(lookup, stateKey, eventKey) ==
    LET withState ==
            IF stateKey \in DOMAIN lookup THEN lookup
            ELSE [s \in DOMAIN lookup \cup {stateKey} |->
                    IF s = stateKey THEN <<>> ELSE lookup[s]]
        eventLookup == withState[stateKey]
        withEvent ==
            IF eventKey \in DOMAIN eventLookup THEN eventLookup
            ELSE [e \in DOMAIN eventLookup \cup {eventKey} |->
                    IF e = eventKey THEN <<>> ELSE eventLookup[e]]
    IN  [withState EXCEPT ![stateKey] = withEvent]

WithListeners(lookup, key, seq) ==
    [GetOnTransitionListeners(lookup, key[1], key[2])
        EXCEPT ![key[1]][key[2]] = seq]

-----------------------------------------------------------------------------
(* The call stack and the log *)

InDispatch == stack # <<>>
Top == stack[Len(stack)]

\* Caller code runs: either the program that owns the Fsm, or a listener body.
CallerRuns == IF InDispatch THEN Top.running # None ELSE TRUE

ApiKinds == {"commit", "throw", "set", "on", "off", "get", "mutate", "clone"}

CountKind(lg, kinds) == Cardinality({k \in 1..Len(lg) : lg[k].kind \in kinds})

\* API calls made by listener bodies since the outermost dispatch began.
NestedOps == IF log = <<>> THEN 0 ELSE CountKind(log, ApiKinds) - 1

MayCall ==
    /\ CallerRuns
    /\ IF InDispatch THEN NestedOps < MaxNestedOps ELSE TRUE

\* A log entry.  kind is "commit" (a transition function was called: cb names
\* it, prev and ev are its arguments, next its result), "stateChange" or
\* "transition" (listener cb was called with prev, ev, next by dispatch d),
\* "return" (dispatch d returned), or a call a listener body made: "throw"
\* (a dispatch that failed), "set", "on", "off" (of cb, in the Set of key;
\* res tells whether the Set changed: "added", "present", "removed", "absent"),
\* "get" (getState / getInternalState), "mutate" (an assignment to a field of
\* the object the caller holds), "clone".
Entry(kind, i, d, cb, key, prev, ev, next, res) ==
    [kind |-> kind, fsm |-> i, d |-> d, cb |-> cb, key |-> key, prev |-> prev,
     ev |-> ev, next |-> next, res |-> res]

\* A call made by a listener body is logged; a call from outside is not.
Logged(entry) == IF InDispatch THEN Append(log, entry) ELSE log

\* The Error dispatch throws, by what its message says (lines 229-241): the
\* event tag, the state tag, and either the keys of the state's entry
\* ("Valid events in this state are ...") or "There are no transitions out
\* of the ... state".
NoError == [event |-> None, state |-> None, says |-> None, tags |-> {}]

ErrorMessage(table, stateTag, eventTag) ==
    IF stateTag \in DOMAIN table
    THEN [event |-> eventTag, state |-> stateTag, says |-> "validEvents",
          tags |-> ObjectKeys(table[stateTag])]
    ELSE [event |-> eventTag, state |-> stateTag, says |-> "noTransitions",
          tags |-> {}]

Step(op, i, ev, cb, key, result) ==
    [op |-> op, fsm |-> i, ev |-> ev, cb |-> cb, key |-> key, result |-> result,
     error |-> NoError]

Roots(st, stk, lg, hd) ==
    { st[i] : i \in DOMAIN st }
    \cup { hd }
    \cup { stk[k].prevState : k \in 1..Len(stk) }
    \cup { lg[k].prev : k \in 1..Len(lg) }
    \cup { lg[k].next : k \in 1..Len(lg) }

\* The callbacks of one Set of instance i, in insertion order: the
\* state-change Set (key = NoKey) or the transition Set of a key.
Registered(i, key) ==
    IF key = NoKey THEN onStateChangeListeners[i]
    ELSE ListenersOf(onTransitionLookup[i], key)

NoUnsub == [kind |-> None, fsm |-> None, key |-> NoKey, cb |-> None]

\* A variant of the closure of line 318 that calls offStateChange(callback).
UnsubStateChangeOnly(kind, i, key, cb) ==
    [kind |-> "stateChange", fsm |-> i, key |-> NoKey, cb |-> cb]

Unsub(kind, i, key, cb) == [kind |-> kind, fsm |-> i, key |-> key, cb |-> cb]

-----------------------------------------------------------------------------
(* Fsm: construction *)

Init ==
    /\ transitions \in Tables
    /\ \E v \in StateValues :
        /\ heap = [r \in {1} |-> v]
        /\ state = [i \in FsmIds |-> 1]
    /\ onStateChangeListeners = [i \in FsmIds |-> <<>>]
    /\ onTransitionLookup = [i \in FsmIds |-> <<>>]
    /\ stack = <<>>
    /\ unsub = NoUnsub
    /\ held = 0
    /\ log = <<>>
    /\ step = Step("new", "fsm", NoEvent, None, NoKey, "ok")

-----------------------------------------------------------------------------
(* Fsm.dispatch *)

\* Number of the dispatch that commits next, within the outermost dispatch.
NextDispatchId == CountKind(log, {"commit"}) + 1

Frame(i, d, prevState, event) ==
    [fsm |-> i, d |-> d, prevState |-> prevState, event |-> event,
     phase |-> "stateChange", idx |-> 0, listeners |-> NoKey, running |-> None]

\* Where a new dispatch call goes on the call stack: on top of its caller.
\* A variant in which a dispatch called while another one runs is queued
\* behind the running ones instead of running at once.
PushFrameDeferred(stk, frame) == << frame >> \o stk

\* A variant in which a dispatch called by a listener body waits until the
\* dispatch that called that listener has finished.
PushFrameUnderCaller(stk, frame) ==
    IF stk = <<>> THEN << frame >>
    ELSE SubSeq(stk, 1, Len(stk) - 1) \o << frame, stk[Len(stk)] >>

PushFrame(stk, frame) == Append(stk, frame)

\* A variant in which dispatch goes on to its loops when the transition
\* function throws, as with the call in a try block.
HandlerThrowNotifies(stk, frame) == Append(stk, frame)

\* Line 245: an exception of the transition function leaves dispatch before
\* the assignment and before the loops.
HandlerThrowLeaves(stk, frame) == stk

\* A variant of line 245 that drops the state the transition function returns.
CommitDiscarded(st, i, next) == st

\* A variant in which the instances share one state field.
CommitAll(st, i, next) == [j \in DOMAIN st |-> next]

\* Line 245: this.state = transition(prevState, event)
Commit(st, i, next) == [st EXCEPT ![i] = next]

\* Lines 222-245: the lookup, then either the throw or the commit of the
\* state the transition function returns.  The listener loops follow.
Dispatch(i, event) ==
    /\ MayCall
    /\ LET prevState == state[i]
           transition == GetTransitionHandler(transitions, heap[prevState].tag,
                                              event.tag)
           next == NewRef(heap)
       IN  IF ~Truthy(transition)
           THEN /\ step' = [Step("dispatch", i, event, None, NoKey,
                                 "InvalidTransition")
                             EXCEPT !.error =
                                 ErrorMessage(transitions, heap[prevState].tag,
                                              event.tag)]
                /\ log' = Logged(Entry("throw", i, 0, None, NoKey, 0, event, 0,
                                      "InvalidTransition"))
                /\ UNCHANGED << heap, state, stack >>
           ELSE IF HandlerThrows(transition, heap[prevState], event)
           THEN /\ step' = Step("dispatch", i, event, None, NoKey, "HandlerError")
                /\ log' = Logged(Entry("throw", i, 0, transition, NoKey, 0, event, 0,
                                      "HandlerError"))
                /\ stack' = HandlerThrowLeaves(stack,
                                 Frame(i, NextDispatchId, prevState, event))
                /\ UNCHANGED << heap, state >>
           ELSE /\ heap' = Alloc(heap, next,
                                 ApplyTransition(transition, heap[prevState], event))
                /\ state' = Commit(state, i, next)
                /\ stack' = PushFrame(stack,
                                      Frame(i, NextDispatchId, prevState, event))
                /\ log' = Append(log, Entry("commit", i, NextDispatchId, transition,
                                            NoKey, prevState, event, next,
                                            "ok"))
                /\ step' = Step("dispatch", i, event, None, NoKey, "ok")
    /\ UNCHANGED << transitions, onStateChangeListeners, onTransitionLookup, unsub,
                    held >>

SetTop(stk, frame) == [stk EXCEPT ![Len(stk)] = frame]

\* Lines 247-249: one turn of the loop over the state-change listeners.
NotifyStateChange ==
    /\ InDispatch
    /\ Top.running = None
    /\ Top.phase = "stateChange"
    /\ Top.idx < Len(onStateChangeListeners[Top.fsm])
    /\ LET listener == onStateChangeListeners[Top.fsm][Top.idx + 1]
       IN  /\ stack' = SetTop(stack, [Top EXCEPT !.idx = @ + 1,
                                                 !.running = listener])
           /\ log' = Append(log, Entry("stateChange", Top.fsm, Top.d, listener,
                                       NoKey, Top.prevState, NoEvent,
                                       state[Top.fsm], "ok"))
           /\ step' = Step("notifyStateChange", Top.fsm, NoEvent, listener, NoKey,
                           "ok")
    /\ UNCHANGED << heap, transitions, state, onStateChangeListeners,
                    onTransitionLookup, unsub, held >>

\* Lines 252-255: the state-change loop is over; look the transition
\* listeners of (prevState.tag, event.tag) up.
BeginTransitionListeners ==
    /\ InDispatch
    /\ Top.running = None
    /\ Top.phase = "stateChange"
    /\ Top.idx >= Len(onStateChangeListeners[Top.fsm])
    /\ LET stateKey == heap[Top.prevState].tag
           eventKey == Top.event.tag
           found == HasListeners(onTransitionLookup[Top.fsm], stateKey, eventKey)
       IN  stack' = SetTop(stack,
                [Top EXCEPT !.phase = "transition", !.idx = 0,
                            !.listeners = IF found THEN << stateKey, eventKey >>
                                          ELSE NoKey])
    /\ step' = Step("beginTransitionListeners", Top.fsm, NoEvent, None, NoKey, "ok")
    /\ UNCHANGED << heap, transitions, state, onStateChangeListeners,
                    onTransitionLookup, unsub, log, held >>

\* Lines 256-258: one turn of the loop over the transition listeners.
NotifyTransition ==
    /\ InDispatch
    /\ Top.running = None
    /\ Top.phase = "transition"
    /\ Top.listeners # NoKey
    /\ Top.idx < Len(ListenersOf(onTransitionLookup[Top.fsm], Top.listeners))
    /\ LET listener ==
               ListenersOf(onTransitionLookup[Top.fsm], Top.listeners)[Top.idx + 1]
       IN  /\ stack' = SetTop(stack, [Top EXCEPT !.idx = @ + 1,
                                                 !.running = listener])
           /\ log' = Append(log, Entry("transition", Top.fsm, Top.d, listener,
                                       Top.listeners, Top.prevState, Top.event,
                                       state[Top.fsm], "ok"))
           /\ step' = Step("notifyTransition", Top.fsm, Top.event, listener,
                           Top.listeners, "ok")
    /\ UNCHANGED << heap, transitions, state, onStateChangeListeners,
                    onTransitionLookup, unsub, held >>

\* A listener body returns to the loop that called it.
ListenerReturn ==
    /\ InDispatch
    /\ Top.running # None
    /\ stack' = SetTop(stack, [Top EXCEPT !.running = None])
    /\ step' = Step("listenerReturn", Top.fsm, NoEvent, Top.running, NoKey, "ok")
    /\ UNCHANGED << heap, transitions, state, onStateChangeListeners,
                    onTransitionLookup, unsub, log, held >>

\* Line 260: both loops are over, dispatch returns to its caller.  The log
\* covers one outermost dispatch: it is dropped when that dispatch returns.
DispatchReturn ==
    /\ InDispatch
    /\ Top.running = None
    /\ Top.phase = "transition"
    /\ Top.idx >= Len(ListenersOf(onTransitionLookup[Top.fsm], Top.listeners))
    /\ stack' = SubSeq(stack, 1, Len(stack) - 1)
    /\ log' = IF Len(stack) = 1 THEN <<>>
              ELSE Append(log,
                          Entry("return", Top.fsm, Top.d, None, NoKey, 0, NoEvent, 0,
                                "ok"))
    /\ LET kept == Collect(heap, Roots(state, stack', log', held))
       IN  IF Len(stack) = 1
           THEN /\ heap' = Compact(kept)
                /\ state' = Renamed(kept, state)
                /\ held' = RenamedRef(kept, held)
           ELSE /\ heap' = kept
                /\ UNCHANGED << state, held >>
    /\ step' = Step("dispatchReturn", Top.fsm, Top.event, None, NoKey, "ok")
    /\ UNCHANGED << transitions, onStateChangeListeners, onTransitionLookup,
                    unsub >>

\* A variant in which a throwing listener undoes the commit of its dispatch.
UnwindRollback(st, frame) == [st EXCEPT ![frame.fsm] = frame.prevState]

\* What a throw out of the loops of dispatch leaves of the state (lines
\* 247-259 have no try / finally).
Unwind(st, frame) == st

\* A listener body throws: the exception leaves the loop that called it and
\* the dispatch call of that loop.  When that dispatch was called by a
\* listener body, that body runs on: it catches the exception, or throws in
\* its turn.
ListenerThrow ==
    /\ InDispatch
    /\ Top.running # None
    /\ stack' = SubSeq(stack, 1, Len(stack) - 1)
    /\ log' = IF Len(stack) = 1 THEN <<>>
              ELSE Append(log,
                          Entry("thrown", Top.fsm, Top.d, Top.running, NoKey, 0,
                                NoEvent, 0, "thrown"))
    /\ LET left == Unwind(state, Top)
           kept == Collect(heap, Roots(left, stack', log', held))
       IN  IF Len(stack) = 1
           THEN /\ heap' = Compact(kept)
                /\ state' = Renamed(kept, left)
                /\ held' = RenamedRef(kept, held)
           ELSE /\ heap' = kept
                /\ state' = left
                /\ UNCHANGED held
    /\ step' = Step("listenerThrow", Top.fsm, Top.event, Top.running, NoKey,
                    "thrown")
    /\ UNCHANGED << transitions, onStateChangeListeners, onTransitionLookup,
                    unsub >>

-----------------------------------------------------------------------------
(* Fsm.setInternalState *)

\* A variant of setInternalState that also drops the state-change listeners,
\* as a reset would.
SetInternalStateResetting(i, ref, value) ==
    /\ MayCall
    /\ ref \in DOMAIN heap \cup {NewRef(heap)}
    /\ ref \in DOMAIN heap => value = heap[ref]
    /\ log' = Logged(Entry("set", i, 0, None, NoKey, 0, NoEvent, ref, "ok"))
    /\ LET assigned == [state EXCEPT ![i] = ref]
           kept == Collect(Alloc(heap, ref, value), Roots(assigned, stack, log', held))
       IN  IF InDispatch
           THEN /\ heap' = kept
                /\ state' = assigned
                /\ UNCHANGED held
           ELSE /\ heap' = Compact(kept)
                /\ state' = Renamed(kept, assigned)
                /\ held' = RenamedRef(kept, held)
    /\ onStateChangeListeners' = [onStateChangeListeners EXCEPT ![i] = <<>>]
    /\ step' = Step("setInternalState", i, NoEvent, None, NoKey, "ok")
    /\ UNCHANGED << transitions, onTransitionLookup, stack, unsub >>

\* The caller passes an object it holds (ref is live) or a new one.
SetInternalState(i, ref, value) ==
    /\ MayCall
    /\ ref \in DOMAIN heap \cup {NewRef(heap)}
    /\ ref \in DOMAIN heap => value = heap[ref]
    /\ log' = Logged(Entry("set", i, 0, None, NoKey, 0, NoEvent, ref, "ok"))
    /\ LET assigned == [state EXCEPT ![i] = ref]
           kept == Collect(Alloc(heap, ref, value), Roots(assigned, stack, log', held))
       IN  IF InDispatch
           THEN /\ heap' = kept
                /\ state' = assigned
                /\ UNCHANGED held
           ELSE /\ heap' = Compact(kept)
                /\ state' = Renamed(kept, assigned)
                /\ held' = RenamedRef(kept, held)
    /\ step' = Step("setInternalState", i, NoEvent, None, NoKey, "ok")
    /\ UNCHANGED << transitions, onStateChangeListeners, onTransitionLookup,
                    stack, unsub >>

-----------------------------------------------------------------------------
(* Fsm.getState, getInternalState, clone, and what the caller does with the
   objects it gets *)

\* The new heap, states and held object of a step that leaves object hd in
\* the caller's hands: what nothing refers to is dropped, and when no
\* dispatch runs the live objects are renumbered.
Settled(h, st, hd) ==
    LET kept == Collect(h, Roots(st, stack, log', hd))
    IN  IF InDispatch
        THEN /\ heap' = kept
             /\ state' = st
             /\ held' = hd
        ELSE /\ heap' = Compact(kept)
             /\ state' = Renamed(kept, st)
             /\ held' = RenamedRef(kept, hd)

\* FieldKey (line 93) admits symbols as tags; the structured clone algorithm
\* copies strings, numbers and plain objects and rejects a symbol.
SymbolTags == {"Symbol(idle)"}
SymbolState == [tag |-> "Symbol(idle)"]
IsSymbol(tag) == tag \in SymbolTags
Cloneable(h, r) == ~IsSymbol(h[r].tag)

\* A variant of structuredClone that copies the top-level object only, as
\* { ...value } does: the copy shares the payload object.
ShallowClone(h, r) == Alloc(h, NewRef(h), h[r])

\* structuredClone(value): a new object, at reference NewRef(h), with a copy
\* of every object reachable from value.
StructuredClone(h, r) ==
    IF HasPayload(h[r])
    THEN LET copy == NewRef(h)
             reserved == Alloc(h, copy, h[r])
             payload == NewRef(reserved)
         IN  Alloc(Alloc(h, payload, h[h[r].payload]), copy,
                   [h[r] EXCEPT !.payload = payload])
    ELSE Alloc(h, NewRef(h), h[r])

\* Fsm.getState; the caller keeps the result.  structuredClone throws a
\* DataCloneError for a value it cannot copy, and getState with it.
GetState(i) ==
    /\ MayCall
    /\ IF Cloneable(heap, state[i])
       THEN /\ log' = Logged(Entry("get", i, 0, None, NoKey, 0, NoEvent, 0, "ok"))
            /\ Settled(StructuredClone(heap, state[i]), state, NewRef(heap))
            /\ step' = Step("getState", i, NoEvent, None, NoKey, "ok")
       ELSE /\ log' = Logged(Entry("get", i, 0, None, NoKey, 0, NoEvent, 0,
                                   "DataCloneError"))
            /\ step' = Step("getState", i, NoEvent, None, NoKey, "DataCloneError")
            /\ UNCHANGED << heap, state, held >>
    /\ UNCHANGED << transitions, onStateChangeListeners, onTransitionLookup,
                    stack, unsub >>

\* Fsm.getInternalState; the caller keeps the result.
HoldInternalState(i) ==
    /\ MayCall
    /\ held # GetInternalState(i)
    /\ log' = Logged(Entry("get", i, 0, None, NoKey, 0, NoEvent, 0, "ok"))
    /\ Settled(heap, state, GetInternalState(i))
    /\ step' = Step("getInternalState", i, NoEvent, None, NoKey, "ok")
    /\ UNCHANGED << transitions, onStateChangeListeners, onTransitionLookup,
                    stack, unsub >>

OtherTag(tag) == IF tag = "on" THEN "off" ELSE "on"

\* The caller assigns to a field of the object it holds: held.tag = ..., or
\* held.payload.n = ...
MutateHeld(field) ==
    /\ MayCall
    /\ held # 0
    /\ IF field = "tag"
       THEN heap' = [heap EXCEPT ![held].tag = OtherTag(@)]
       ELSE /\ HasPayload(heap[held])
            /\ heap' = [heap EXCEPT ![heap[held].payload].n = 1 - @]
    /\ log' = Logged(Entry("mutate", None, 0, None, NoKey, 0, NoEvent, held, "ok"))
    /\ step' = Step("mutate", None, NoEvent, None, NoKey, field)
    /\ UNCHANGED << transitions, state, onStateChangeListeners,
                    onTransitionLookup, stack, unsub, held >>

\* The instance clone() constructs.
NewInstance == "clone"

\* A variant of clone that carries the state-change listeners over.
CopiedStateChangeListeners(original) == original

\* Lines 262 and 278-282: the field initialisers of the new instance.
NewStateChangeListeners(original) == <<>>
NewTransitionLookup(original) == <<>>

Constructed(f, i, value) ==
    [j \in DOMAIN f \cup {i} |-> IF j = i THEN value ELSE f[j]]

\* A variant of clone that hands a copy of the state to the new instance.
CloneCopying(i) ==
    /\ MayCall
    /\ NewInstance \notin DOMAIN state
    /\ heap' = StructuredClone(heap, state[i])
    /\ state' = Constructed(state, NewInstance, NewRef(heap))
    /\ onStateChangeListeners' =
           Constructed(onStateChangeListeners, NewInstance,
                       NewStateChangeListeners(onStateChangeListeners[i]))
    /\ onTransitionLookup' =
           Constructed(onTransitionLookup, NewInstance,
                       NewTransitionLookup(onTransitionLookup[i]))
    /\ log' = Logged(Entry("clone", i, 0, None, NoKey, 0, NoEvent, 0, "ok"))
    /\ step' = Step("clone", i, NoEvent, None, NoKey, "ok")
    /\ UNCHANGED << transitions, stack, unsub, held >>

\* Fsm.clone: new Fsm(this.state, this.transitions)
Clone(i) ==
    /\ MayCall
    /\ NewInstance \notin DOMAIN state
    /\ state' = Constructed(state, NewInstance, state[i])
    /\ onStateChangeListeners' =
           Constructed(onStateChangeListeners, NewInstance,
                       NewStateChangeListeners(onStateChangeListeners[i]))
    /\ onTransitionLookup' =
           Constructed(onTransitionLookup, NewInstance,
                       NewTransitionLookup(onTransitionLookup[i]))
    /\ log' = Logged(Entry("clone", i, 0, None, NoKey, 0, NoEvent, 0, "ok"))
    /\ step' = Step("clone", i, NoEvent, None, NoKey, "ok")
    /\ UNCHANGED << heap, transitions, stack, unsub, held >>

-----------------------------------------------------------------------------
(* Listener registration *)

\* The running loops over a Set follow a deletion from it.
CursorsAfterDelete(stk, i, phase, key, seq, cb) ==
    [k \in 1..Len(stk) |->
        IF stk[k].fsm = i /\ stk[k].phase = phase /\ stk[k].listeners = key
        THEN [stk[k] EXCEPT !.idx = CursorAfterDelete(seq, @, cb)]
        ELSE stk[k]]

\* A variant of the addition that is ignored while a dispatch is notifying.
AddStateChangeUnlessDispatching(i, cb) ==
    IF InDispatch
    THEN UNCHANGED onStateChangeListeners
    ELSE onStateChangeListeners' =
             [onStateChangeListeners EXCEPT ![i] = SetAdd(@, cb)]

\* this.onStateChangeListeners.add(callback)
AddStateChange(i, cb) ==
    onStateChangeListeners' =
        [onStateChangeListeners EXCEPT ![i] = SetAdd(@, cb)]

\* A variant of the deletion that is ignored while a dispatch is notifying.
DeleteStateChangeUnlessDispatching(i, cb) ==
    IF InDispatch
    THEN UNCHANGED << onStateChangeListeners, stack >>
    ELSE /\ onStateChangeListeners' =
              [onStateChangeListeners EXCEPT ![i] = SetDelete(@, cb)]
         /\ UNCHANGED stack

\* this.onStateChangeListeners.delete(callback)
DeleteStateChange(i, cb) ==
    /\ onStateChangeListeners' =
        [onStateChangeListeners EXCEPT ![i] = SetDelete(@, cb)]
    /\ stack' = CursorsAfterDelete(stack, i, "stateChange", NoKey,
                                   onStateChangeListeners[i], cb)

\* this.getOnTransitionListeners(stateKey, eventKey).add(callback)
AddTransition(i, key, cb) ==
    onTransitionLookup' =
        [onTransitionLookup EXCEPT ![i] =
            WithListeners(@, key, SetAdd(ListenersOf(@, key), cb))]

\* this.getOnTransitionListeners(stateKey, eventKey).delete(callback)
DeleteTransition(i, key, cb) ==
    /\ onTransitionLookup' =
        [onTransitionLookup EXCEPT ![i] =
            WithListeners(@, key, SetDelete(ListenersOf(@, key), cb))]
    /\ stack' = CursorsAfterDelete(stack, i, "transition", key,
                                   ListenersOf(onTransitionLookup[i], key), cb)

\* Fsm.onStateChange
OnStateChange(i, cb) ==
    /\ MayCall
    /\ AddStateChange(i, cb)
    /\ unsub' = Unsub("stateChange", i, NoKey, cb)
    /\ LET res == AddResult(onStateChangeListeners[i], cb)
       IN  /\ log' = Logged(Entry("on", i, 0, cb, NoKey, 0, NoEvent, 0, res))
           /\ step' = Step("onStateChange", i, NoEvent, cb, NoKey, res)
    /\ UNCHANGED << heap, transitions, state, onTransitionLookup, stack, held >>

\* Fsm.offStateChange
OffStateChange(i, cb) ==
    /\ MayCall
    /\ DeleteStateChange(i, cb)
    /\ LET res == DeleteResult(onStateChangeListeners[i], cb)
       IN  /\ log' = Logged(Entry("off", i, 0, cb, NoKey, 0, NoEvent, 0, res))
           /\ step' = Step("offStateChange", i, NoEvent, cb, NoKey, res)
    /\ UNCHANGED << heap, transitions, state, onTransitionLookup, unsub, held >>

\* Fsm.onTransition
OnTransition(i, key, cb) ==
    /\ MayCall
    /\ AddTransition(i, key, cb)
    /\ unsub' = Unsub("transition", i, key, cb)
    /\ LET res == AddResult(ListenersOf(onTransitionLookup[i], key), cb)
       IN  /\ log' = Logged(Entry("on", i, 0, cb, key, 0, NoEvent, 0, res))
           /\ step' = Step("onTransition", i, NoEvent, cb, key, res)
    /\ UNCHANGED << heap, transitions, state, onStateChangeListeners, stack,
                    held >>

\* Fsm.offTransition
OffTransition(i, key, cb) ==
    /\ MayCall
    /\ DeleteTransition(i, key, cb)
    /\ LET res == DeleteResult(ListenersOf(onTransitionLookup[i], key), cb)
       IN  /\ log' = Logged(Entry("off", i, 0, cb, key, 0, NoEvent, 0, res))
           /\ step' = Step("offTransition", i, NoEvent, cb, key, res)
    /\ UNCHANGED << heap, transitions, state, onStateChangeListeners, unsub,
                    held >>

\* The closure onStateChange / onTransition returned, called.
Unsubscribe ==
    /\ MayCall
    /\ unsub # NoUnsub
    /\ IF unsub.kind = "stateChange"
       THEN /\ DeleteStateChange(unsub.fsm, unsub.cb)
            /\ UNCHANGED onTransitionLookup
       ELSE /\ DeleteTransition(unsub.fsm, unsub.key, unsub.cb)
            /\ UNCHANGED onStateChangeListeners
    /\ LET res == DeleteResult(Registered(unsub.fsm, unsub.key), unsub.cb)
       IN  /\ log' = Logged(Entry("off", unsub.fsm, 0, unsub.cb, unsub.key, 0,
                                  NoEvent, 0, res))
           /\ step' = Step("unsubscribe", unsub.fsm, NoEvent, unsub.cb,
                           unsub.key, res)
    /\ UNCHANGED << heap, transitions, state, unsub, held >>

-----------------------------------------------------------------------------
(* The specification *)

Next ==
    \/ \E i \in FsmIds, event \in Events : Dispatch(i, event)
    \/ NotifyStateChange
    \/ BeginTransitionListeners
    \/ NotifyTransition
    \/ ListenerReturn
    \/ DispatchReturn
    \/ \E i \in FsmIds, ref \in 1..(Cardinality(DOMAIN heap) + 1),
          value \in StateValues : SetInternalState(i, ref, value)
    \/ \E i \in FsmIds, cb \in Callbacks : OnStateChange(i, cb)
    \/ \E i \in FsmIds, cb \in Callbacks : OffStateChange(i, cb)
    \/ \E i \in FsmIds, key \in ListenKeys, cb \in Callbacks :
          OnTransition(i, key, cb)
    \/ \E i \in FsmIds, key \in ListenKeys, cb \in Callbacks :
          OffTransition(i, key, cb)
    \/ Unsubscribe

Spec == Init /\ [][Next]_vars

\* Tables that are empty or have dead ends, with one callback and every
\* operation of the class.
TableInit ==
    /\ transitions \in { EmptyTable, DeadEndTable, HandlerlessTable }
    /\ \E v \in StateValues \cup {SymbolState} :
        /\ heap = [r \in {1} |-> v]
        /\ state = [i \in FsmIds |-> 1]
    /\ onStateChangeListeners = [i \in FsmIds |-> <<>>]
    /\ onTransitionLookup = [i \in FsmIds |-> <<>>]
    /\ stack = <<>>
    /\ unsub = NoUnsub
    /\ held = 0
    /\ log = <<>>
    /\ step = Step("new", "fsm", NoEvent, None, NoKey, "ok")

OneCallback == {"L1"}

\* Every call is made on the instance that was constructed; the instance
\* clone() returns is only looked at.
TableNext ==
    \/ \E i \in FsmIds, event \in Events : Dispatch(i, event)
    \/ NotifyStateChange
    \/ BeginTransitionListeners
    \/ NotifyTransition
    \/ ListenerReturn
    \/ DispatchReturn
    \/ \E i \in FsmIds, ref \in 1..(Cardinality(DOMAIN heap) + 1),
          value \in StateValues : SetInternalState(i, ref, value)
    \/ \E i \in FsmIds, cb \in OneCallback : OnStateChange(i, cb)
    \/ \E i \in FsmIds, cb \in OneCallback : OffStateChange(i, cb)
    \/ \E i \in FsmIds, key \in ListenKeys, cb \in OneCallback :
          OnTransition(i, key, cb)
    \/ \E i \in FsmIds, key \in ListenKeys, cb \in OneCallback :
          OffTransition(i, key, cb)
    \/ \E i \in FsmIds : GetState(i)
    \/ \E i \in FsmIds : HoldInternalState(i)
    \/ \E i \in FsmIds : Clone(i)

TableSpec == TableInit /\ [][TableNext]_vars

\* A state with a payload, the objects getState / getInternalState hand out,
\* and a caller that assigns to their fields.
CopyInit ==
    /\ transitions = ToggleTable
    /\ \E v \in StateValues :
        /\ heap = << [tag |-> v.tag, payload |-> 2], PayloadValue >>
        /\ state = [i \in FsmIds |-> 1]
    /\ onStateChangeListeners = [i \in FsmIds |-> <<>>]
    /\ onTransitionLookup = [i \in FsmIds |-> <<>>]
    /\ stack = <<>>
    /\ unsub = NoUnsub
    /\ held = 0
    /\ log = <<>>
    /\ step = Step("new", "fsm", NoEvent, None, NoKey, "ok")

\* The objects setInternalState can be handed: a state object in use, or a
\* new one.
StateObjects(h) == { r \in DOMAIN h : "tag" \in DOMAIN h[r] }

CopyNext ==
    \/ \E i \in FsmIds, event \in Events : Dispatch(i, event)
    \/ NotifyStateChange
    \/ BeginTransitionListeners
    \/ ListenerReturn
    \/ DispatchReturn
    \/ \E i \in FsmIds, ref \in StateObjects(heap) :
          SetInternalState(i, ref, heap[ref])
    \/ \E i \in FsmIds, value \in StateValues :
          SetInternalState(i, NewRef(heap), value)
    \/ \E i \in FsmIds, cb \in OneCallback : OnStateChange(i, cb)
    \/ \E i \in FsmIds, cb \in OneCallback : OffStateChange(i, cb)
    \/ \E i \in FsmIds : GetState(i)
    \/ \E i \in FsmIds : HoldInternalState(i)
    \/ \E field \in {"tag", "payload"} : MutateHeld(field)

CopySpec == CopyInit /\ [][CopyNext]_vars

\* The toggle example: dispatch attempts, from outside and from the body of a
\* state-change listener.
ToggleInit == Init /\ transitions = ToggleTable

ToggleNext ==
    \/ \E i \in FsmIds, event \in Events : Dispatch(i, event)
    \/ NotifyStateChange
    \/ BeginTransitionListeners
    \/ ListenerReturn
    \/ DispatchReturn
    \/ \E i \in FsmIds, cb \in Callbacks : ~InDispatch /\ OnStateChange(i, cb)
    \/ \E i \in FsmIds, cb \in Callbacks : ~InDispatch /\ OffStateChange(i, cb)

ToggleSpec == ToggleInit /\ [][ToggleNext]_vars

\* The turnstile example, with a state-change listener whose body may
\* dispatch.  The balance is followed from -MaxBalance to MaxBalance.
TurnstileInit ==
    /\ transitions = TurnstileTable
    /\ heap = << [tag |-> "locked"] >>
    /\ state = [i \in FsmIds |-> 1]
    /\ onStateChangeListeners = [i \in FsmIds |-> <<>>]
    /\ onTransitionLookup = [i \in FsmIds |-> <<>>]
    /\ stack = <<>>
    /\ unsub = NoUnsub
    /\ held = 0
    /\ log = <<>>
    /\ step = Step("new", "fsm", NoEvent, None, NoKey, "ok")

WithinBalance(current, event) ==
    IF current.tag = "locked" THEN TRUE
    ELSE IF event.tag = "insert_coins"
         THEN current.balance + event.numberOfCoinsInserted <= MaxBalance
         ELSE current.balance - 1 >= -MaxBalance

TurnstileNext ==
    \/ \E i \in FsmIds, event \in TurnstileEvents :
          /\ WithinBalance(heap[state[i]], event)
          /\ Dispatch(i, event)
    \/ NotifyStateChange
    \/ BeginTransitionListeners
    \/ ListenerReturn
    \/ DispatchReturn
    \/ \E i \in FsmIds, cb \in OneCallback : ~InDispatch /\ OnStateChange(i, cb)
    \/ \E i \in FsmIds, cb \in OneCallback : ~InDispatch /\ OffStateChange(i, cb)

TurnstileSpec == TurnstileInit /\ [][TurnstileNext]_vars

\* A table with a transition function that throws, with listeners in both
\* registries; a listener body may dispatch.
FailInit ==
    /\ transitions = ThrowingTable
    /\ \E v \in StateValues :
        /\ heap = [r \in {1} |-> v]
        /\ state = [i \in FsmIds |-> 1]
    /\ onStateChangeListeners = [i \in FsmIds |-> <<>>]
    /\ onTransitionLookup = [i \in FsmIds |-> <<>>]
    /\ stack = <<>>
    /\ unsub = NoUnsub
    /\ held = 0
    /\ log = <<>>
    /\ step = Step("new", "fsm", NoEvent, None, NoKey, "ok")

FailNext ==
    \/ \E i \in FsmIds, event \in Events : Dispatch(i, event)
    \/ NotifyStateChange
    \/ BeginTransitionListeners
    \/ NotifyTransition
    \/ ListenerReturn
    \/ DispatchReturn
    \/ \E i \in FsmIds, cb \in OneCallback : ~InDispatch /\ OnStateChange(i, cb)
    \/ \E i \in FsmIds, cb \in OneCallback : ~InDispatch /\ OffStateChange(i, cb)
    \/ \E i \in FsmIds, key \in ListenKeys, cb \in OneCallback :
          ~InDispatch /\ OnTransition(i, key, cb)
    \/ \E i \in FsmIds, key \in ListenKeys, cb \in OneCallback :
          ~InDispatch /\ OffTransition(i, key, cb)

FailSpec == FailInit /\ [][FailNext]_vars

\* Listeners that may throw.  They are registered and removed between
\* dispatches; a listener body may dispatch, return or throw.
ThrowInit == Init /\ transitions = ToggleTable

ThrowNext ==
    \/ \E i \in FsmIds, event \in Events : Dispatch(i, event)
    \/ NotifyStateChange
    \/ BeginTransitionListeners
    \/ NotifyTransition
    \/ ListenerReturn
    \/ ListenerThrow
    \/ DispatchReturn
    \/ \E i \in FsmIds, cb \in Callbacks :
          ~InDispatch /\ OnStateChange(i, cb)
    \/ \E i \in FsmIds, cb \in Callbacks :
          ~InDispatch /\ OffStateChange(i, cb)
    \/ \E i \in FsmIds, key \in ListenKeys, cb \in Callbacks :
          ~InDispatch /\ OnTransition(i, key, cb)
    \/ \E i \in FsmIds, key \in ListenKeys, cb \in Callbacks :
          ~InDispatch /\ OffTransition(i, key, cb)

ThrowSpec == ThrowInit /\ [][ThrowNext]_vars

\* Two instances whose state carries a payload, and a caller that assigns to
\* the fields of the object getInternalState gave it.  No listener is
\* registered.
ShareNext ==
    \/ \E i \in DOMAIN state, event \in Events : Dispatch(i, event)
    \/ BeginTransitionListeners
    \/ DispatchReturn
    \/ \E i \in DOMAIN state, ref \in StateObjects(heap) :
          SetInternalState(i, ref, heap[ref])
    \/ \E i \in DOMAIN state, value \in StateValues :
          SetInternalState(i, NewRef(heap), value)
    \/ \E i \in DOMAIN state : Clone(i)
    \/ \E i \in DOMAIN state : GetState(i)
    \/ \E i \in DOMAIN state : HoldInternalState(i)
    \/ \E field \in {"tag", "payload"} : MutateHeld(field)

ShareSpec == CopyInit /\ [][ShareNext]_vars

\* The constructed instance and the instance clone() returns, both in use.
\* Listeners are registered and removed, the state is set and the clone is
\* made between dispatches; a listener body may dispatch on the other
\* instance.
CloneInit == Init /\ transitions = ToggleTable

CloneNext ==
    \/ \E i \in DOMAIN state, event \in Events :
          /\ InDispatch => i # stack[Len(stack)].fsm
          /\ Dispatch(i, event)
    \/ NotifyStateChange
    \/ BeginTransitionListeners
    \/ NotifyTransition
    \/ ListenerReturn
    \/ DispatchReturn
    \/ \E i \in DOMAIN state, value \in StateValues :
          ~InDispatch /\ SetInternalState(i, NewRef(heap), value)
    \/ \E i \in DOMAIN state, cb \in OneCallback :
          ~InDispatch /\ OnStateChange(i, cb)
    \/ \E i \in DOMAIN state, cb \in OneCallback :
          ~InDispatch /\ OffStateChange(i, cb)
    \/ \E i \in DOMAIN state, key \in ListenKeys, cb \in OneCallback :
          ~InDispatch /\ OnTransition(i, key, cb)
    \/ \E i \in DOMAIN state, key \in ListenKeys, cb \in OneCallback :
          ~InDispatch /\ OffTransition(i, key, cb)
    \/ \E i \in DOMAIN state : ~InDispatch /\ Clone(i)

CloneSpec == CloneInit /\ [][CloneNext]_vars

-----------------------------------------------------------------------------
(* Properties.  The helpers below read the table, the Sets and the log      *)
(* directly; they do not go through the operations they are checked on.     *)

\* The table holds a handler function for (stateTag, eventTag).
TableHas(stateTag, eventTag) ==
    /\ stateTag \in DOMAIN transitions
    /\ eventTag \in DOMAIN transitions[stateTag]
    /\ transitions[stateTag][eventTag] # Undefined

\* Every entry of the table is a handler function.
WellFormedTable ==
    \A s \in DOMAIN transitions : \A e \in DOMAIN transitions[s] :
        transitions[s][e] # Undefined

\* The step just taken is a call of dispatch on instance i.
IsDispatchCall(i) == step'.op = "dispatch" /\ step'.fsm = i

Invocations == {"stateChange", "transition"}

\* Positions of the log where dispatch d called a listener of the given kind.
Calls(d, kind) == { k \in 1..Len(log) : log[k].d = d /\ log[k].kind = kind }

\* The log entry of the transition function call of dispatch d.
CommitOf(d) == log[CHOOSE k \in 1..Len(log) : log[k].kind = "commit" /\ log[k].d = d]

\* The dispatch on top of the stack has finished both loops.
AboutToReturn ==
    /\ InDispatch
    /\ Top.running = None
    /\ Top.phase = "transition"
    /\ Top.idx >= Len(Registered(Top.fsm, Top.listeners))

\* C1: canDispatch(e) is true exactly when dispatch of an event tagged e from
\* the same state does not fail with InvalidTransition, for every table whose
\* entries are handler functions, every reachable state and every event tag.
C1_CanDispatchIffDispatchSucceeds ==
    [][\A i \in FsmIds :
        (WellFormedTable /\ IsDispatchCall(i)) =>
            (CanDispatch(i, step'.ev.tag) <=> step'.result # "InvalidTransition")
      ]_vars

\* C1 witness: a dispatch has just failed in a state where canDispatch is
\* true of another event tag.
C1_Witness ==
    /\ step.op = "dispatch"
    /\ step.result = "InvalidTransition"
    /\ ~CanDispatch(step.fsm, step.ev.tag)
    /\ \E e \in Events : CanDispatch(step.fsm, e.tag)

\* C2: a dispatch for which the table has no handler for (current state tag,
\* event tag) fails with InvalidTransition and changes nothing: the current
\* state is the same reference to the same value, no listener is called, and
\* both listener registries are as before.
C2_FailedDispatchChangesNothing ==
    [][\A i \in FsmIds :
        (IsDispatchCall(i) /\ ~TableHas(heap[state[i]].tag, step'.ev.tag)) =>
            /\ step'.result = "InvalidTransition"
            /\ state' = state
            /\ heap' = heap
            /\ stack' = stack
            /\ onStateChangeListeners' = onStateChangeListeners
            /\ onTransitionLookup' = onTransitionLookup
            /\ \A k \in 1..Len(log') :
                   log'[k].kind \in Invocations \cup {"commit"} => k <= Len(log)
      ]_vars

\* C2 witness: a dispatch has just failed while listeners of both kinds are
\* registered.
C2_Witness ==
    /\ step.op = "dispatch"
    /\ step.result = "InvalidTransition"
    /\ onStateChangeListeners[step.fsm] # <<>>
    /\ \E key \in ListenKeys : Registered(step.fsm, key) # <<>>

\* C3: when dispatch finds a handler, the handler is called exactly once, with
\* the state current before the call and the event; the state it returns
\* replaces the current state; and when the dispatch returns without a
\* listener having re-entered dispatch or called setInternalState, the current
\* state is still exactly that returned state.
C3_HandlerCalled ==
    \A i \in FsmIds :
        (IsDispatchCall(i) /\ TableHas(heap[state[i]].tag, step'.ev.tag)) =>
            LET handler == transitions[heap[state[i]].tag][step'.ev.tag]
                called == log'[Len(log')]
            IN  /\ Len(log') = Len(log) + 1
                /\ called.kind = "commit"
                /\ called.cb = handler
                /\ called.prev = state[i]
                /\ called.ev = step'.ev
                /\ called.next \notin DOMAIN heap
                /\ heap'[called.next] =
                       ApplyTransition(handler, heap[state[i]], step'.ev)
                /\ state'[i] = called.next

\* No dispatch committed on, and no setInternalState was called on, the
\* instance of dispatch d after d committed.
Undisturbed(d) ==
    \A k \in 1..Len(log) :
        (log[k].kind \in {"commit", "set"} /\ log[k].fsm = CommitOf(d).fsm) =>
            (log[k].kind = "commit" /\ log[k].d <= d)

C3_StateAtReturn ==
    (AboutToReturn /\ Undisturbed(Top.d)) =>
        /\ state[Top.fsm] = CommitOf(Top.d).next
        /\ heap[state[Top.fsm]] =
               ApplyTransition(CommitOf(Top.d).cb, heap[Top.prevState], Top.event)

C3_DispatchCommitsHandlerResult ==
    [][C3_HandlerCalled]_vars /\ []C3_StateAtReturn

\* C3 witness: a dispatch is about to return after its listeners ran, none of
\* them having touched the state, and the state has another tag than before.
C3_Witness ==
    /\ AboutToReturn
    /\ Undisturbed(Top.d)
    /\ Calls(Top.d, "stateChange") # {}
    /\ heap[state[Top.fsm]].tag # heap[Top.prevState].tag

\* The Set of (i, key) after the step.
RegisteredNext(i, key) ==
    IF key = NoKey THEN onStateChangeListeners'[i]
    ELSE ListenersOf(onTransitionLookup'[i], key)

\* The Set of (i, key) after the step is what add / delete of cb makes of it.
AddedLast(i, key, cb) ==
    RegisteredNext(i, key) =
        IF cb \in Range(Registered(i, key)) THEN Registered(i, key)
        ELSE Append(Registered(i, key), cb)

Removed(i, key, cb) ==
    RegisteredNext(i, key) = SelectSeq(Registered(i, key), LAMBDA x : x # cb)

IsOnCall == step'.op \in {"onStateChange", "onTransition"}
IsOffCall == step'.op \in {"offStateChange", "offTransition", "unsubscribe"}

\* Callback cb was registered (again) in the Set of log entry p after p.
RegisteredSince(p, cb) ==
    \E r \in (p + 1)..Len(log) :
        /\ log[r].kind = "on"
        /\ log[r].res = "added"
        /\ log[r].fsm = log[p].fsm
        /\ log[r].key = log[p].key
        /\ log[r].cb = cb

\* C4: within one dispatch every state-change listener call comes before
\* every transition listener call, and within each group the listeners are
\* called in the order in which they were registered: registration appends to
\* the Set, removal keeps the order of the others, and of two listeners a
\* dispatch calls one after the other, neither registered again since, the
\* first stands before the second in the Set.
C4_OrderInLog ==
    \A p, q \in 1..Len(log) :
        (/\ p < q
         /\ log[p].d = log[q].d
         /\ log[p].kind \in Invocations
         /\ log[q].kind \in Invocations) =>
            /\ ~(log[p].kind = "transition" /\ log[q].kind = "stateChange")
            /\ LET S == Registered(log[p].fsm, log[p].key)
               IN  (/\ log[p].kind = log[q].kind
                    /\ log[p].cb # log[q].cb
                    /\ log[p].cb \in Range(S)
                    /\ log[q].cb \in Range(S)
                    /\ ~RegisteredSince(p, log[p].cb)
                    /\ ~RegisteredSince(p, log[q].cb)) =>
                        IndexOf(S, log[p].cb) < IndexOf(S, log[q].cb)

C4_RegistrationOrder ==
    /\ IsOnCall => AddedLast(step'.fsm, step'.key, step'.cb)
    /\ IsOffCall => Removed(step'.fsm, step'.key, step'.cb)

C4_ListenerOrder == []C4_OrderInLog /\ [][C4_RegistrationOrder]_vars

\* C4 witness: one dispatch has called two state-change listeners and then a
\* transition listener.
C4_Witness ==
    \E p, q, r \in 1..Len(log) :
        /\ p < q /\ q < r
        /\ log[p].d = log[q].d /\ log[q].d = log[r].d
        /\ log[p].kind = "stateChange" /\ log[q].kind = "stateChange"
        /\ log[p].cb # log[q].cb
        /\ log[r].kind = "transition"

\* C5: a callback removed by offStateChange / offTransition or by the returned
\* unsubscribe function is not called by any dispatch until it is registered
\* again, also when another listener removes it during the notification,
\* before its turn: a removal leaves the callback out of the Set, only a
\* registration puts it back, a dispatch calls only callbacks that are in the
\* Set at that moment, and no call of a callback follows its removal in the
\* log without a registration in between.
C5_OffInLog ==
    \A p, q \in 1..Len(log) :
        (/\ p < q
         /\ log[p].kind = "off"
         /\ log[q].kind \in Invocations
         /\ log[q].fsm = log[p].fsm
         /\ log[q].key = log[p].key
         /\ log[q].cb = log[p].cb) =>
            \E r \in (p + 1)..(q - 1) :
                /\ log[r].kind = "on"
                /\ log[r].res = "added"
                /\ log[r].fsm = log[p].fsm
                /\ log[r].key = log[p].key
                /\ log[r].cb = log[p].cb

C5_OnlyRegisteredCalled ==
    /\ IsOffCall => step'.cb \notin Range(RegisteredNext(step'.fsm, step'.key))
    /\ \A i \in FsmIds, key \in ListenKeys \cup {NoKey}, cb \in Callbacks :
           (cb \notin Range(Registered(i, key)) /\ cb \in Range(RegisteredNext(i, key))) =>
               (IsOnCall /\ step'.fsm = i /\ step'.key = key /\ step'.cb = cb)
    /\ step'.op \in {"notifyStateChange", "notifyTransition"} =>
           step'.cb \in Range(Registered(step'.fsm, step'.key))

RegistriesKeptSince(i, p) ==
    \A r \in (p + 1)..Len(log) :
        log[r].fsm = i => log[r].res \notin {"added", "removed"}

\* Position of the transition function call of dispatch d in the log.
CommitAt(d) == CHOOSE k \in 1..Len(log) : log[k].kind = "commit" /\ log[k].d = d

\* Dispatch d has called each callback of seq exactly once as a listener of
\* the given kind.
CalledOnce(d, kind, seq) ==
    \A cb \in Range(seq) :
        Cardinality({ k \in Calls(d, kind) : log[k].cb = cb }) = 1

\* C6: every state-change listener call of a dispatch, nested or not, gets
\* (the state before the dispatch, the state the transition function of that
\* dispatch returned), whatever earlier listeners of the same dispatch did,
\* re-entering dispatch included; and a dispatch during which the Set did not
\* change has called each registered listener exactly once when it returns.
C6_StateChangeArguments ==
    /\ \A k \in 1..Len(log) :
           log[k].kind = "stateChange" =>
               /\ log[k].prev = CommitOf(log[k].d).prev
               /\ log[k].next = CommitOf(log[k].d).next
    /\ (AboutToReturn /\ RegistriesKeptSince(Top.fsm, CommitAt(Top.d))) =>
           CalledOnce(Top.d, "stateChange", onStateChangeListeners[Top.fsm])

\* C7: a transition listener is called by a dispatch only for exactly the
\* pair (tag of the state before the dispatch, tag of the event) it is
\* registered for, and the call gets (that previous state, the event, the
\* state the transition function of that dispatch returned); and a dispatch
\* during which the Sets did not change has called each listener registered
\* for its pair exactly once when it returns.
C7_TransitionArguments ==
    /\ \A k \in 1..Len(log) :
           log[k].kind = "transition" =>
               LET commit == CommitOf(log[k].d)
               IN  /\ log[k].key = << heap[commit.prev].tag, commit.ev.tag >>
                   /\ log[k].cb \in Callbacks
                   /\ log[k].prev = commit.prev
                   /\ log[k].ev = commit.ev
                   /\ log[k].next = commit.next
    /\ (AboutToReturn /\ RegistriesKeptSince(Top.fsm, CommitAt(Top.d))) =>
           CalledOnce(Top.d, "transition",
                      Registered(Top.fsm, << heap[Top.prevState].tag,
                                             Top.event.tag >>))

\* Callback cb has not been put into the Set of key since position p.
NotAddedSince(i, key, cb, p) ==
    \A r \in (p + 1)..Len(log) :
        ~(/\ log[r].kind = "on" /\ log[r].res = "added"
          /\ log[r].fsm = i /\ log[r].key = key /\ log[r].cb = cb)

\* C8: dispatch has no re-entrancy guard.  A dispatch called from a listener
\* runs at once, on top of the one that called the listener (its transition
\* function is called and its state committed in that very step); every
\* listener call the nested dispatch makes comes before the outer dispatch
\* calls its next listener; and the outer dispatch then still calls each of
\* its remaining listeners.
C8_NestedRunsAtOnce ==
    \A i \in FsmIds :
        (/\ IsDispatchCall(i)
         /\ InDispatch
         /\ TableHas(heap[state[i]].tag, step'.ev.tag)) =>
            /\ step'.result = "ok"
            /\ Len(stack') = Len(stack) + 1
            /\ SubSeq(stack', 1, Len(stack)) = stack
            /\ stack'[Len(stack')].d = log'[Len(log')].d
            /\ stack'[Len(stack')].d > Top.d
            /\ stack'[Len(stack')].running = None
            /\ log'[Len(log')].kind = "commit"
            /\ state'[i] = log'[Len(log')].next

C8_NestedBeforeOuterContinues ==
    \A p, q \in 1..Len(log) :
        (/\ p < q
         /\ log[p].kind = "commit"
         /\ log[q].kind \in Invocations
         /\ log[q].d < log[p].d) =>
            \E r \in (p + 1)..(q - 1) :
                log[r].kind = "return" /\ log[r].d = log[p].d

C8_RemainingListenersCalled ==
    AboutToReturn =>
        LET d == Top.d
            i == Top.fsm
            key == << heap[Top.prevState].tag, Top.event.tag >>
        IN  /\ \A cb \in Range(onStateChangeListeners[i]) :
                   NotAddedSince(i, NoKey, cb, CommitAt(d)) =>
                       \E k \in Calls(d, "stateChange") : log[k].cb = cb
            /\ \A cb \in Range(Registered(i, key)) :
                   \E k \in Calls(d, "transition") : log[k].cb = cb

C8_NoReentrancyGuard ==
    /\ [][C8_NestedRunsAtOnce]_vars
    /\ []C8_NestedBeforeOuterContinues
    /\ []C8_RemainingListenersCalled

\* C8 witness: a state-change listener of the outer dispatch re-entered
\* dispatch; the nested dispatch called a listener and returned; the outer
\* dispatch then called its second state-change listener and is about to
\* return.
C8_Witness ==
    /\ AboutToReturn
    /\ Len(stack) = 1
    /\ \E p, q, r, t \in 1..Len(log) :
        /\ p < q /\ q < r /\ r < t
        /\ log[p].kind = "commit" /\ log[p].d > Top.d
        /\ log[p - 1].kind = "stateChange" /\ log[p - 1].d = Top.d
        /\ log[q].kind \in Invocations /\ log[q].d = log[p].d
        /\ log[r].kind = "return" /\ log[r].d = log[p].d
        /\ log[t].kind = "stateChange" /\ log[t].d = Top.d

\* The Sets hold no callback twice.
NoDuplicates ==
    \A i \in FsmIds, key \in ListenKeys \cup {NoKey} :
        Cardinality(Range(Registered(i, key))) = Len(Registered(i, key))

\* C9: registration is idempotent per callback identity.  Registering a
\* callback that is already in the Set changes neither Set (nor its place in
\* the order); no Set ever holds a callback twice; a dispatch during which the
\* registries did not change calls every registered callback exactly once;
\* and one removal takes the callback out completely.
C9_SecondRegistrationIsNoOp ==
    /\ (IsOnCall /\ step'.cb \in Range(Registered(step'.fsm, step'.key))) =>
           /\ step'.result = "present"
           /\ onStateChangeListeners' = onStateChangeListeners
           /\ onTransitionLookup' = onTransitionLookup
           /\ stack' = stack
    /\ IsOnCall =>
           Len(RegisteredNext(step'.fsm, step'.key))
               <= Len(Registered(step'.fsm, step'.key)) + 1
    /\ IsOffCall => step'.cb \notin Range(RegisteredNext(step'.fsm, step'.key))

C9_CalledOnce ==
    /\ NoDuplicates
    /\ (AboutToReturn /\ RegistriesKeptSince(Top.fsm, CommitAt(Top.d))) =>
           /\ CalledOnce(Top.d, "stateChange", onStateChangeListeners[Top.fsm])
           /\ CalledOnce(Top.d, "transition",
                         Registered(Top.fsm, Top.listeners))

C9_RegistrationIdempotent ==
    [][C9_SecondRegistrationIsNoOp]_vars /\ []C9_CalledOnce

\* C9 witness: a state-change listener registered itself again while it was
\* being called, the dispatch has called it once and is about to return.
C9_Witness ==
    /\ AboutToReturn
    /\ \E p \in 1..Len(log) :
        /\ log[p].kind = "on"
        /\ log[p].res = "present"
        /\ log[p].key = NoKey
        /\ log[p - 1].kind = "stateChange"
        /\ log[p - 1].d = Top.d
        /\ log[p - 1].cb = log[p].cb
    /\ RegistriesKeptSince(Top.fsm, CommitAt(Top.d))

\* Every (state tag, event tag) pair a transition listener can be keyed by.
TagPairs == { << s.tag, e.tag >> : s \in StateValues, e \in Events }

\* C10: offStateChange / offTransition of a callback that is not registered,
\* or was already removed, does not throw and is a no-op: the current state,
\* the running dispatches and the listeners of every kind and pair are as
\* before.  After any removal the callback is out of the Set, so a second
\* removal in a row is such a no-op.
C10_RemovalOfAbsentChangesNothing ==
    /\ (/\ step'.op \in {"offStateChange", "offTransition"}
        /\ step'.cb \notin Range(Registered(step'.fsm, step'.key))) =>
           /\ step'.result = "absent"
           /\ state' = state
           /\ heap' = heap
           /\ stack' = stack
           /\ unsub' = unsub
           /\ onStateChangeListeners' = onStateChangeListeners
           /\ \A i \in FsmIds, key \in TagPairs :
                  RegisteredNext(i, key) = Registered(i, key)
    /\ step'.op \in {"offStateChange", "offTransition"} =>
           step'.cb \notin Range(RegisteredNext(step'.fsm, step'.key))

C10_RemovalOfAbsentIsNoOp == [][C10_RemovalOfAbsentChangesNothing]_vars

\* C10 witness: offTransition has just been called, during a dispatch, for a
\* callback that is not registered for the pair while another callback is.
C10_Witness ==
    /\ step.op = "offTransition"
    /\ step.result = "absent"
    /\ InDispatch
    /\ Registered(step.fsm, step.key) # <<>>
    /\ step.cb \notin Range(Registered(step.fsm, step.key))

\* What a call of offStateChange(cb) (key = NoKey) or offTransition(key, cb) on
\* instance i does to the program: cb leaves that Set, the other callbacks
\* keep their order, every other Set is as before, a loop running over the
\* Set steps back when the callback it loses was at or before its cursor, and
\* states, table and the objects are untouched.
OffEffect(i, key, cb) ==
    /\ RegisteredNext(i, key) = SelectSeq(Registered(i, key), LAMBDA x : x # cb)
    /\ \A j \in DOMAIN state, other \in TagPairs \cup {NoKey} :
           (j # i \/ other # key) => RegisteredNext(j, other) = Registered(j, other)
    /\ state' = state
    /\ heap' = heap
    /\ transitions' = transitions
    /\ Len(stack') = Len(stack)
    /\ \A k \in 1..Len(stack) :
           LET iterates == /\ stack[k].fsm = i
                           /\ stack[k].listeners = key
                           /\ stack[k].phase =
                                  (IF key = NoKey THEN "stateChange" ELSE "transition")
               lost == \E n \in 1..stack[k].idx :
                           /\ n <= Len(Registered(i, key))
                           /\ Registered(i, key)[n] = cb
           IN  stack'[k] = [stack[k] EXCEPT
                               !.idx = IF iterates /\ lost THEN @ - 1 ELSE @]

\* C11: the function onStateChange(cb) returns does what offStateChange(cb)
\* does, and the function onTransition(s, e, cb) returns does what
\* offTransition(s, e, cb) does, whenever it is called: the closure holds the
\* instance, the key and the callback of the call that returned it, nothing
\* but another registration replaces it, and a call of it has the effect of
\* the matching off call made in the same state (as every off call has).
C11_ClosureIsOffCall ==
    /\ step'.op = "onStateChange" =>
           unsub' = [kind |-> "stateChange", fsm |-> step'.fsm, key |-> NoKey,
                     cb |-> step'.cb]
    /\ step'.op = "onTransition" =>
           unsub' = [kind |-> "transition", fsm |-> step'.fsm,
                     key |-> step'.key, cb |-> step'.cb]
    /\ ~IsOnCall => unsub' = unsub
    /\ step'.op = "unsubscribe" =>
           /\ unsub.kind = "stateChange" => OffEffect(unsub.fsm, NoKey, unsub.cb)
           /\ unsub.kind = "transition" =>
                  (unsub.key # NoKey /\ OffEffect(unsub.fsm, unsub.key, unsub.cb))
           /\ step'.result = DeleteResult(Registered(unsub.fsm, unsub.key),
                                          unsub.cb)
    /\ step'.op \in {"offStateChange", "offTransition"} =>
           OffEffect(step'.fsm, step'.key, step'.cb)

C11_UnsubscribeEquivalentToOff == [][C11_ClosureIsOffCall]_vars

\* C11 witness: a listener has just called the closure onTransition returned,
\* during the loop over the Set the callback was in, and the callback left
\* the Set while another one stays.
C11_Witness ==
    /\ step.op = "unsubscribe"
    /\ step.result = "removed"
    /\ step.key # NoKey
    /\ InDispatch
    /\ Top.phase = "transition"
    /\ Registered(step.fsm, step.key) # <<>>
    /\ step.cb \notin Range(Registered(step.fsm, step.key))

\* C12: setInternalState(s) makes s the current state and does nothing else:
\* no transition function and no listener is called (no dispatch starts, the
\* running ones stay where they are), both registries and the table are as
\* before, the object s itself is not modified, the other objects in use
\* keep their values, and canDispatch / isFinalState then answer for the tag
\* of s.
C12_SetOnlyAssigns ==
    \A i \in DOMAIN state :
        (step'.op = "setInternalState" /\ step'.fsm = i) =>
            /\ stack' = stack
            /\ onStateChangeListeners' = onStateChangeListeners
            /\ onTransitionLookup' = onTransitionLookup
            /\ transitions' = transitions
            /\ unsub' = unsub
            /\ \A k \in 1..Len(log') :
                   log'[k].kind \in Invocations \cup {"commit"} =>
                       (k <= Len(log) /\ log'[k] = log[k])
            /\ InDispatch =>
                   LET s == log'[Len(log')].next
                   IN  /\ log'[Len(log')].kind = "set"
                       /\ state'[i] = s
                       /\ s \in DOMAIN heap => heap'[s] = heap[s]
                       /\ \A k \in 1..Len(stack) :
                              heap'[stack[k].prevState] = heap[stack[k].prevState]
            /\ heap'[state'[i]] \in StateValues
            /\ \A e \in Events :
                   CanDispatch(i, e.tag)' <=> TableHas(heap'[state'[i]].tag, e.tag)
            /\ IsFinalState(i)' <=>
                   (\A e \in Events : e.tag \notin
                       (IF heap'[state'[i]].tag \in DOMAIN transitions
                        THEN DOMAIN transitions[heap'[state'[i]].tag] ELSE {}))

C12_SetInternalStateFrame == [][C12_SetOnlyAssigns]_vars

\* C12 witness: a listener has just handed the previous state it was called
\* with back to setInternalState, while listeners of both kinds are
\* registered: the current state is that very object again and its tag
\* differs from the tag of the state the dispatch had committed.
C12_Witness ==
    /\ step.op = "setInternalState"
    /\ InDispatch
    /\ state[step.fsm] = Top.prevState
    /\ heap[CommitOf(Top.d).next].tag # heap[state[step.fsm]].tag
    /\ onStateChangeListeners[step.fsm] # <<>>
    /\ \E key \in ListenKeys : Registered(step.fsm, key) # <<>>

\* The event keys of the table's entry for a state tag; none when the table
\* has no entry for it.
EventKeys(stateTag) ==
    IF stateTag \in DOMAIN transitions THEN DOMAIN transitions[stateTag] ELSE {}

DeepValue(h, r) ==
    IF HasPayload(h[r])
    THEN [tag |-> h[r].tag, payload |-> h[h[r].payload]]
    ELSE [tag |-> h[r].tag, payload |-> None]

\* The objects the instances and their running dispatches refer to, payloads
\* included.
UsedByFsm(h, st, stk) ==
    LET direct == { st[i] : i \in DOMAIN st }
                  \cup { stk[k].prevState : k \in 1..Len(stk) }
    IN  direct \cup { h[r].payload : r \in { x \in direct : HasPayload(h[x]) } }

\* What getInternalState, getState, canDispatch and dispatch read of an
\* instance.
Observed(h, st, i) ==
    [value |-> DeepValue(h, st[i]),
     can |-> { e \in Events : TableHas(h[st[i]].tag, e.tag) }]

\* C14: getState() returns an object that is structurally equal to the
\* current state, nested payload included, and that shares no object with
\* it: neither the copy nor its payload is an object the instance or a
\* running dispatch refers to, so it is not the result of an earlier
\* getState() that is still in use either.  The call changes nothing of
\* the instance.  An assignment to a field of an object the instance does
\* not refer to, such as a result of getState(), or to its payload, changes
\* nothing getInternalState, getState, canDispatch or dispatch read later.
C14_CopyIsEqualAndApart ==
    /\ \A i \in DOMAIN state :
           (step'.op = "getState" /\ step'.fsm = i /\ step'.result = "ok") =>
               /\ held' # 0
               /\ DeepValue(heap', held') = DeepValue(heap', state'[i])
               /\ held' \notin UsedByFsm(heap', state', stack')
               /\ HasPayload(heap'[held']) =>
                      heap'[held'].payload \notin UsedByFsm(heap', state', stack')
               /\ Observed(heap', state', i) = Observed(heap, state, i)
               /\ stack' = stack
               /\ onStateChangeListeners' = onStateChangeListeners
               /\ onTransitionLookup' = onTransitionLookup
    /\ (step'.op = "mutate" /\ held \notin { state[i] : i \in DOMAIN state }) =>
           /\ state' = state
           /\ \A i \in DOMAIN state :
                  Observed(heap', state', i) = Observed(heap, state, i)

C14_GetStateCopies == [][C14_CopyIsEqualAndApart]_vars

\* C14 witness: the caller has just assigned to the payload of a copy that
\* getState() returned; the copy now differs from the current state, whose
\* payload still has the value it had.
C14_Witness ==
    /\ step.op = "mutate"
    /\ step.result = "payload"
    /\ held \notin UsedByFsm(heap, state, stack)
    /\ HasPayload(heap[state["fsm"]])
    /\ heap[heap[state["fsm"]].payload] = PayloadValue
    /\ heap[heap[held].payload] # PayloadValue
    /\ heap[held].tag = heap[state["fsm"]].tag

\* The two registries of an instance.
Registries(i) ==
    [stateChange |-> onStateChangeListeners[i], transition |-> onTransitionLookup[i]]

RegistrationSteps ==
    {"onStateChange", "offStateChange", "onTransition", "offTransition"}

\* C15: clone() returns an instance whose two registries are empty, and
\* leaves the registries of its receiver as they are.  A registration or a
\* removal on one instance leaves the registries of every other instance
\* unchanged.  A dispatch on an instance invokes only callbacks that are in
\* that instance's own Set at that moment: a callback registered on the
\* other instance only is never invoked.
C15_RegistriesApart ==
    /\ step'.op = "clone" =>
           /\ NewInstance \in DOMAIN state'
           /\ onStateChangeListeners'[NewInstance] = <<>>
           /\ onTransitionLookup'[NewInstance] = <<>>
           /\ \A j \in DOMAIN state : Registries(j)' = Registries(j)
    /\ \A i \in DOMAIN state :
           (step'.op \in RegistrationSteps /\ step'.fsm = i) =>
               \A j \in DOMAIN state \ {i} : Registries(j)' = Registries(j)
    /\ \A j \in DOMAIN state :
           /\ (step'.op = "notifyStateChange" /\ step'.fsm = j) =>
                  step'.cb \in Range(onStateChangeListeners[j])
           /\ (step'.op = "notifyTransition" /\ step'.fsm = j) =>
                  step'.cb \in Range(ListenersOf(onTransitionLookup[j], step'.key))

C15_CloneListenersIndependent == [][C15_RegistriesApart]_vars

\* C15 witness: a transition listener of the original dispatched on the
\* clone, and that dispatch is calling the clone's state-change listener;
\* the original has no state-change listener.
C15_Witness ==
    /\ Len(stack) = 2
    /\ stack[1].fsm = "fsm"
    /\ stack[1].phase = "transition"
    /\ stack[2].fsm = NewInstance
    /\ step.op = "notifyStateChange"
    /\ step.fsm = NewInstance
    /\ onStateChangeListeners["fsm"] = <<>>
    /\ onStateChangeListeners[NewInstance] # <<>>

DispatchSteps ==
    {"dispatch", "notifyStateChange", "beginTransitionListeners",
     "notifyTransition", "listenerReturn", "dispatchReturn"}

\* C16: right after clone() the clone's current state is the receiver's
\* current state, which the call leaves as it is.  Every step of a dispatch
\* on one instance, and every setInternalState on it, leaves the current
\* state of every other instance as it was: the same value, and for the
\* step that commits the same object.
C16_StatesApart ==
    /\ \A i \in DOMAIN state :
           (step'.op = "clone" /\ step'.fsm = i) =>
               /\ state'[NewInstance] = state[i]
               /\ heap'[state'[NewInstance]] = heap[state[i]]
               /\ state'[i] = state[i]
    /\ \A i \in DOMAIN state : \A j \in DOMAIN state \ {i} :
           (step'.fsm = i /\ step'.op \in DispatchSteps \cup {"setInternalState"}) =>
               /\ heap'[state'[j]] = heap[state[j]]
               /\ step'.op = "dispatch" => state'[j] = state[j]

C16_CloneStateSnapshot == [][C16_StatesApart]_vars

\* C16 witness: a listener of the clone dispatched on the original, which
\* has just committed; the two instances are in different states.
C16_Witness ==
    /\ Len(stack) = 2
    /\ stack[1].fsm = NewInstance
    /\ step.op = "dispatch"
    /\ step.result = "ok"
    /\ step.fsm = "fsm"
    /\ heap[state["fsm"]].tag # heap[state[NewInstance]].tag

\* C17: after a dispatch that failed with InvalidTransition, the error names
\* the attempted event tag and the current state tag; when the entry of the
\* current state tag lists at least one event tag the error carries that
\* list, and otherwise (no entry for the state tag, or an entry with no
\* event keys) it says that the state has no outgoing transitions.
C17_ErrorDescribesState ==
    \A i \in DOMAIN state :
        (step.op = "dispatch" /\ step.fsm = i
             /\ step.result = "InvalidTransition") =>
            LET stateTag == heap[state[i]].tag
            IN  /\ step.error.event = step.ev.tag
                /\ step.error.state = stateTag
                /\ IF EventKeys(stateTag) # {}
                   THEN /\ step.error.says = "validEvents"
                        /\ step.error.tags = EventKeys(stateTag)
                   ELSE step.error.says = "noTransitions"

\* The callbacks dispatch d has called as listeners of the given kind, in the
\* order of the calls.
InvokedBy(lg, d, kind) ==
    LET ByD(e) == e.d = d /\ e.kind = kind
        calls == SelectSeq(lg, ByD)
    IN  [k \in 1..Len(calls) |-> calls[k].cb]

\* The listeners the loops of a frame have called so far, the running one
\* included, when the Sets did not change since the dispatch began.
CalledSoFar(frame, kind) ==
    LET stateChange == onStateChangeListeners[frame.fsm]
        transition == ListenersOf(onTransitionLookup[frame.fsm], frame.listeners)
    IN  IF kind = "stateChange"
        THEN IF frame.phase = "stateChange"
             THEN SubSeq(stateChange, 1, frame.idx)
             ELSE stateChange
        ELSE IF frame.phase = "transition"
             THEN SubSeq(transition, 1, frame.idx)
             ELSE <<>>

\* A listener has thrown: what the throw finds done, and what it leaves.
C18_ThrowLeavesCommitted ==
    step'.op = "listenerThrow" =>
        LET frame == stack[Len(stack)]
            d == frame.d
            i == frame.fsm
        IN  /\ \E k \in 1..Len(log) : log[k].kind = "commit" /\ log[k].d = d
            /\ (\A k \in (CommitAt(d) + 1)..Len(log) : log[k].kind # "commit") =>
                   /\ state[i] = CommitOf(d).next
                   /\ heap'[state'[i]] = heap[CommitOf(d).next]
            /\ heap'[state'[i]] = heap[state[i]]
            /\ Len(stack) > 1 => state' = state
            /\ InvokedBy(log, d, "stateChange") = CalledSoFar(frame, "stateChange")
            /\ InvokedBy(log, d, "transition") = CalledSoFar(frame, "transition")
            /\ step'.cb = frame.running
            /\ stack' = SubSeq(stack, 1, Len(stack) - 1)
            /\ onStateChangeListeners' = onStateChangeListeners
            /\ onTransitionLookup' = onTransitionLookup

\* A dispatch a listener has thrown out of calls no listener afterwards.
C18_NoCallAfterThrow ==
    \A k \in 1..Len(log) : \A m \in (k + 1)..Len(log) :
        log[k].kind = "thrown" =>
            ~(log[m].kind \in Invocations /\ log[m].d = log[k].d)

\* C18: when a listener throws during a dispatch, the transition function of
\* that dispatch has been called and its result is the current state (unless
\* a later commit replaced it), the listeners before the throwing one in the
\* notification order have been called, in order, and no listener after it;
\* the throw removes the dispatch from the call stack and changes neither the
\* state nor the registries, and the dispatch calls no listener afterwards.
C18_ListenerThrowPropagates ==
    /\ [][C18_ThrowLeavesCommitted]_vars
    /\ []C18_NoCallAfterThrow

\* C18 witness: the second of two state-change listeners has thrown out of a
\* dispatch made by a listener body; the first had been called, the
\* transition listener registered for the dispatched pair was not, and the
\* state the dispatch committed is the current state.
C18_Witness ==
    /\ Len(stack) = 1
    /\ step.op = "listenerThrow"
    /\ onStateChangeListeners["fsm"] = << "L1", "L2" >>
    /\ log # <<>>
    /\ LET last == log[Len(log)]
       IN  /\ last.kind = "thrown"
           /\ last.cb = "L2"
           /\ InvokedBy(log, last.d, "stateChange") = << "L1", "L2" >>
           /\ InvokedBy(log, last.d, "transition") = <<>>
           /\ ListenersOf(onTransitionLookup["fsm"],
                          << heap[CommitOf(last.d).prev].tag,
                             CommitOf(last.d).ev.tag >>) # <<>>
           /\ state["fsm"] = CommitOf(last.d).next

\* The value getState() of instance i returns.
GetStateValue(h, st, i) == DeepValue(StructuredClone(h, st[i]), NewRef(h))

\* C19: clone() gives the new instance the receiver's state object itself.
\* The two instances keep referring to one object through every step that is
\* not a dispatch or a setInternalState on one of them, and while they do,
\* an assignment to a field of that object, or of its payload, obtained
\* through getInternalState() of one instance, changes what
\* getInternalState() and getState() of the other return.
C19_MutationShared ==
    /\ \A i \in DOMAIN state :
           (step'.op = "clone" /\ step'.fsm = i) =>
               /\ state'[NewInstance] = GetInternalState(i)
               /\ heap' = heap
    /\ \A i \in DOMAIN state : \A j \in DOMAIN state \ {i} :
           /\ (state[i] = state[j]
                   /\ step'.op \notin {"dispatch", "setInternalState"}) =>
                  state'[i] = state'[j]
           /\ (step'.op = "mutate" /\ held = GetInternalState(i)
                   /\ state[j] = state[i]) =>
                  /\ state'[j] = state[j]
                  /\ DeepValue(heap', state'[j]) # DeepValue(heap, state[j])
                  /\ DeepValue(heap', state'[j]) = DeepValue(heap', held')
                  /\ GetStateValue(heap', state', j) # GetStateValue(heap, state, j)
                  /\ GetStateValue(heap', state', j) = DeepValue(heap', held')

C19_CloneSharesReference == [][C19_MutationShared]_vars

\* C19 witness: the caller has assigned to the payload of the object
\* getInternalState() returned, which is the current state of both instances;
\* both now show the new payload.
C19_Witness ==
    /\ NewInstance \in DOMAIN state
    /\ step.op = "mutate"
    /\ step.result = "payload"
    /\ held = state["fsm"]
    /\ state[NewInstance] = state["fsm"]
    /\ GetStateValue(heap, state, NewInstance).payload # PayloadValue

Failures == {"InvalidTransition", "DataCloneError"}

\* C20: with an empty transition table, whatever the state value: every
\* instance is final, canDispatch is false for every event tag, every
\* dispatch fails with InvalidTransition, and no other operation (getState,
\* getInternalState, setInternalState, onStateChange, offStateChange,
\* onTransition, offTransition, clone) fails.
C20_EmptyTableLegal ==
    transitions = EmptyTable =>
        /\ \A i \in DOMAIN state :
               /\ IsFinalState(i)
               /\ \A e \in Events : ~CanDispatch(i, e.tag)
        /\ step.op = "dispatch" => step.result = "InvalidTransition"
        /\ step.op # "dispatch" =>
               /\ step.result \notin Failures
               /\ step.error = NoError

\* The tag the toggle example reaches from a state tag by an event tag, None
\* when the example has no such transition.
ToggleExpected(stateTag, eventTag) ==
    CASE eventTag = "toggle" -> OtherTag(stateTag)
      [] eventTag = "switch_on" /\ stateTag = "off" -> "on"
      [] eventTag = "switch_off" /\ stateTag = "on" -> "off"
      [] OTHER -> None

C21_ToggleStep ==
    \A i \in DOMAIN state :
        IsDispatchCall(i) =>
            LET expected == ToggleExpected(heap[state[i]].tag, step'.ev.tag)
            IN  IF expected = None
                THEN /\ step'.result = "InvalidTransition"
                     /\ state' = state
                     /\ heap'[state'[i]] = heap[state[i]]
                ELSE /\ step'.result = "ok"
                     /\ heap'[state'[i]].tag = expected

C21_ToggleStates ==
    \A i \in DOMAIN state :
        /\ heap[state[i]].tag \in {"on", "off"}
        /\ ~IsFinalState(i)

\* C21: with the toggle table, from either initial state and after any
\* dispatch attempts: the state tag is on or off and the state is not final;
\* toggle succeeds and flips the tag, switch_on succeeds exactly in off and
\* gives on, switch_off succeeds exactly in on and gives off, and every other
\* dispatch fails with InvalidTransition and leaves the state as it was.
C21_ToggleBehaviour ==
    /\ [][C21_ToggleStep]_vars
    /\ []C21_ToggleStates

\* C21 witness: a listener body tried switch_on while the state was on; the
\* dispatch failed and the state is still on.
C21_Witness ==
    /\ InDispatch
    /\ step.op = "dispatch"
    /\ step.ev.tag = "switch_on"
    /\ step.result = "InvalidTransition"
    /\ heap[state["fsm"]].tag = "on"

NoTransition == [tag |-> None]

\* The state the turnstile example reaches from a state by an event,
\* NoTransition when the example has none.
TurnstileExpected(current, event) ==
    CASE current.tag = "locked" /\ event.tag = "insert_coins" ->
            [tag |-> "unlocked", balance |-> event.numberOfCoinsInserted]
      [] current.tag = "unlocked" /\ event.tag = "insert_coins" ->
            [tag |-> "unlocked",
             balance |-> current.balance + event.numberOfCoinsInserted]
      [] current.tag = "unlocked" /\ event.tag = "walk_through"
             /\ current.balance - 1 = 0 ->
            [tag |-> "locked"]
      [] current.tag = "unlocked" /\ event.tag = "walk_through"
             /\ current.balance - 1 # 0 ->
            [tag |-> "unlocked", balance |-> current.balance - 1]
      [] OTHER -> NoTransition

C22_TurnstileStep ==
    \A i \in DOMAIN state :
        IsDispatchCall(i) =>
            LET expected == TurnstileExpected(heap[state[i]], step'.ev)
            IN  IF expected = NoTransition
                THEN /\ step'.result = "InvalidTransition"
                     /\ state' = state
                     /\ heap'[state'[i]] = heap[state[i]]
                ELSE /\ step'.result = "ok"
                     /\ heap'[state'[i]] = expected

C22_TurnstileStates ==
    \A i \in DOMAIN state :
        /\ heap[state[i]].tag = "locked" =>
               /\ ~CanDispatch(i, "walk_through")
               /\ CanDispatch(i, "insert_coins")
        /\ heap[state[i]].tag = "unlocked" =>
               /\ CanDispatch(i, "walk_through")
               /\ CanDispatch(i, "insert_coins")

\* C22: with the turnstile table, starting at locked: canDispatch of
\* walk_through is false while locked and true while unlocked; insert_coins
\* while locked gives unlocked with the inserted coins as balance (2 coins:
\* balance 2), insert_coins while unlocked adds to the balance, walk_through
\* while unlocked takes 1 off the balance and gives locked exactly when the
\* result is 0 (from 2: unlocked with 1, then locked), and walk_through while
\* locked fails with InvalidTransition and leaves the state locked.
C22_TurnstileBehaviour ==
    /\ [][C22_TurnstileStep]_vars
    /\ []C22_TurnstileStates

\* C22 witness: a walk_through has used the balance up: the dispatch
\* succeeded, the turnstile is locked again and refuses the next one.
C22_Witness ==
    /\ step.op = "dispatch"
    /\ step.ev.tag = "walk_through"
    /\ step.result = "ok"
    /\ heap[state["fsm"]] = [tag |-> "locked"]
    /\ ~CanDispatch("fsm", "walk_through")

\* The callback has been neither added to nor removed from a Set since the
\* outermost dispatch began.
StaysRegistered(cb) ==
    \A r \in 1..Len(log) :
        log[r].cb = cb => log[r].res \notin {"added", "removed"}

\* Pairs of state-change listener calls of one callback by two dispatches on
\* one instance, the first call first.
NotifiedTwice ==
    { p \in (1..Len(log)) \X (1..Len(log)) :
        /\ p[1] < p[2]
        /\ log[p[1]].kind = "stateChange"
        /\ log[p[2]].kind = "stateChange"
        /\ log[p[1]].cb = log[p[2]].cb
        /\ log[p[1]].fsm = log[p[2]].fsm
        /\ log[p[1]].d # log[p[2]].d
        /\ StaysRegistered(log[p[1]].cb) }

\* Dispatch d has returned between positions a and b of the log.
ReturnedBetween(d, a, b) ==
    \E r \in (a + 1)..(b - 1) : log[r].kind = "return" /\ log[r].d = d

\* C23 as stated: a state-change listener that stays registered is notified
\* of the commits in the order of the commits: when dispatch D1 committed
\* before D2, the listener is called for D1 before it is called for D2.
C23_NotifiedInCommitOrder ==
    \A p \in NotifiedTwice :
        CommitAt(log[p[1]].d) < CommitAt(log[p[2]].d)

\* A dispatch calls a state-change listener only when every dispatch that
\* committed after it has returned.
C23_NestedFirst ==
    step'.op = "notifyStateChange" =>
        LET d == stack[Len(stack)].d
        IN  \A k \in (CommitAt(d) + 1)..Len(log) :
                log[k].kind = "commit" => ReturnedBetween(log[k].d, k, Len(log) + 1)

\* A listener called for a later commit before an earlier one: the later
\* dispatch was made during the earlier one and returned before the earlier
\* one called the listener.
C23_InversionsAreNested ==
    \A p \in NotifiedTwice :
        CommitAt(log[p[2]].d) < CommitAt(log[p[1]].d) =>
            ReturnedBetween(log[p[1]].d, p[1], p[2])

\* C23 amended: dispatches are notified innermost first.  A dispatch calls a
\* state-change listener only when every dispatch that committed after it
\* has returned; so dispatches made one after the other reach a listener in
\* commit order, while a dispatch made by a listener during the notification
\* of another delivers all its notifications before the outer loop goes on,
\* and the listeners after the re-entering one are called for the nested
\* (later) commit before the outer (earlier) one.
C23_NotifiedInnermostFirst ==
    /\ [][C23_NestedFirst]_vars
    /\ []C23_InversionsAreNested

\* C23 witness: a listener that stayed registered has been called for the
\* nested dispatch and then for the dispatch that committed before it.
C23_Witness ==
    \E p \in NotifiedTwice : CommitAt(log[p[2]].d) < CommitAt(log[p[1]].d)

\* C24: in every reachable state, for every table the constructor accepts,
\* isFinalState() is true exactly when canDispatch(e) is false for every
\* event tag e.
C24_FinalIffNothingDispatchable ==
    \A i \in DOMAIN state :
        IsFinalState(i) <=> (\A e \in Events : ~CanDispatch(i, e.tag))

\* Positions of the log where a callback was added to the Set of key of
\* instance i while dispatch d was in its state-change loop, and was not
\* removed from that Set afterwards.
AddedDuringStateChangeLoop(i, d, key) ==
    { k \in 1..Len(log) :
        /\ log[k].kind = "on"
        /\ log[k].res = "added"
        /\ log[k].fsm = i
        /\ log[k].key = key
        /\ k > CommitAt(d)
        /\ \A m \in 1..(k - 1) : ~(log[m].kind = "transition" /\ log[m].d = d)
        /\ \A m \in (k + 1)..Len(log) :
               ~(log[m].res = "removed" /\ log[m].fsm = i /\ log[m].key = key
                    /\ log[m].cb = log[k].cb) }

\* Dispatch d has called the callback added at position k, after k, as a
\* listener of the given kind.
CalledAfter(d, k, kind) ==
    \E m \in (k + 1)..Len(log) :
        log[m].kind = kind /\ log[m].d = d /\ log[m].cb = log[k].cb

C25_PickedUp ==
    step'.op = "dispatchReturn" =>
        LET frame == stack[Len(stack)]
            pair == << heap[frame.prevState].tag, frame.event.tag >>
        IN  /\ \A k \in AddedDuringStateChangeLoop(frame.fsm, frame.d, NoKey) :
                   CalledAfter(frame.d, k, "stateChange")
            /\ \A k \in AddedDuringStateChangeLoop(frame.fsm, frame.d, pair) :
                   CalledAfter(frame.d, k, "transition")

\* C25: when a dispatch returns, every callback that was added to the
\* state-change Set while that dispatch was in its state-change loop, and
\* every callback that was added during that loop to the transition Set of
\* the dispatched (previous state tag, event tag) pair, has been called by
\* that dispatch after its registration, unless it was removed again.
C25_RegisteredDuringDispatchIsNotified == [][C25_PickedUp]_vars

\* C25 witness: a state-change listener registered a transition listener for
\* the pair being dispatched, and the same dispatch is calling it.
C25_Witness ==
    /\ InDispatch
    /\ step.op = "notifyTransition"
    /\ \E k \in AddedDuringStateChangeLoop(Top.fsm, Top.d, step.key) :
           /\ log[k].cb = step.cb
           /\ CalledAfter(Top.d, k, "transition")

C26_HandlerThrowStep ==
    \A i \in DOMAIN state :
        (IsDispatchCall(i) /\ step'.result = "HandlerError") =>
            /\ CanDispatch(i, step'.ev.tag)
            /\ state' = state
            /\ heap' = heap
            /\ stack' = stack
            /\ onStateChangeListeners' = onStateChangeListeners
            /\ onTransitionLookup' = onTransitionLookup
            /\ \A k \in (Len(log) + 1)..Len(log') : log'[k].kind \notin Invocations

\* A dispatch whose transition function threw has no frame: nothing of it
\* is left that could call a listener later.
C26_NoFrameWithoutCommit ==
    \A k \in 1..Len(stack) :
        \E c \in 1..Len(log) : log[c].kind = "commit" /\ log[c].d = stack[k].d

\* C26: when the transition function dispatch found throws, dispatch is left
\* with the current state the same object as before, with the heap, the
\* call stack and both registries unchanged, and without a listener call,
\* then or later.
C26_HandlerThrowChangesNothing ==
    /\ [][C26_HandlerThrowStep]_vars
    /\ []C26_NoFrameWithoutCommit

\* C26 witness: a listener body dispatched switch_off in the state on, whose
\* transition function throws, while a state-change listener and a
\* transition listener are registered.
C26_Witness ==
    /\ InDispatch
    /\ step.op = "dispatch"
    /\ step.result = "HandlerError"
    /\ onStateChangeListeners["fsm"] # <<>>
    /\ ListenersOf(onTransitionLookup["fsm"], << "on", "toggle" >>) # <<>>
    /\ heap[state["fsm"]].tag = "on"

\* ---------------------------------------------------------------------------
\* C27: a callback's place in the notification order is fixed by its earliest
\* registration that has not been removed since.  In every step and for every
\* group (the state-change Set and each transition Set): callbacks that stay
\* registered keep their relative order; an on call for a callback that is
\* still registered leaves it at the same position; an on call for a callback
\* that is not registered (never was, or was removed) puts it after every
\* listener currently registered in the group; nothing else enters a group.
Groups == {NoKey} \cup ListenKeys

SameOrder(old, new) ==
    SelectSeq(old, LAMBDA x : x \in Range(new))
        = SelectSeq(new, LAMBDA x : x \in Range(old))

C27_GroupStep(i, key) ==
    LET old == Registered(i, key)
        new == RegisteredNext(i, key)
        here == step'.fsm = i /\ step'.key = key
    IN  /\ SameOrder(old, new)
        /\ (IsOnCall /\ here /\ step'.cb \in Range(old)) =>
               /\ Len(new) = Len(old)
               /\ \E k \in 1..Len(old) :
                      old[k] = step'.cb /\ new[k] = step'.cb
        /\ (IsOnCall /\ here /\ step'.cb \notin Range(old)) =>
               /\ Len(new) = Len(old) + 1
               /\ new[Len(new)] = step'.cb
               /\ \A k \in 1..Len(old) : new[k] = old[k]
        /\ \A cb \in Range(new) \ Range(old) :
               IsOnCall /\ here /\ step'.cb = cb
        /\ \A cb \in Range(old) \ Range(new) :
               IsOffCall /\ here /\ step'.cb = cb

C27_PositionStep ==
    \A i \in FsmIds : \A key \in Groups : C27_GroupStep(i, key)

C27_PositionByEarliestRegistration == [][C27_PositionStep]_vars

\* C27 witness: L1 has just been registered while L2 was registered, and is
\* placed after it; this is the state an offStateChange(L1) followed by
\* onStateChange(L1) leaves when L1 had been registered before L2.
C27_Witness ==
    /\ step.op = "onStateChange"
    /\ step.cb = "L1"
    /\ step.result = "added"
    /\ onStateChangeListeners["fsm"] = << "L2", "L1" >>

====
